---- MODULE Spec2Model ----
(***************************************************************************)
(* A model of the quiz application: the answer evaluator (isAnswerMatch),  *)
(* the quiz session of components/Quiz.tsx, the study session's fetches    *)
(* and the speech playback of both components.                             *)
(*                                                                         *)
(* Strings are sequences of characters; a character is a one-token string. *)
(* The circled digits U+2460..U+2469 are written "c1" .. "c10".            *)
(***************************************************************************)
EXTENDS Integers, Sequences, FiniteSets, TLC

(***************************************************************************)
(* Bounds of the model.                                                    *)
(***************************************************************************)
MaxStrLen == 4
MaxTextLen == 2
MaxQuestions == 3
MaxSpeechCalls == 2
MaxRuns == 2
MaxChunks == 2
MaxHistory == 4
MaxGenerated == 2
MaxResults == 3
MaxClock == 3
MaxAiCalls == 2
MaxGradedQuestions == 2
MaxFollowUps == 2

(***************************************************************************)
(* Strings.                                                                *)
(***************************************************************************)
\* The value of a (string | null) that is null: a one-token sequence whose
\* token is no character, so that it compares with every string.
Null == <<"null">>

\* The value of an array read out of range (undefined).
Undefined == "undefined"

\* A string property that is absent (undefined).
Absent == <<"undefined">>

Whitespace == {" "}

Strings(chars, n) == UNION {[1..k -> chars] : k \in 0..n}

\* String.prototype.toLowerCase over the characters of the model.
LowerChar(c) ==
    CASE c = "A" -> "a"
      [] c = "O" -> "o"
      [] c = "X" -> "x"
      [] OTHER -> c

toLowerCase(str) == [i \in 1..Len(str) |-> LowerChar(str[i])]

IsNotWhitespace(c) == c \notin Whitespace

\* str.replace(/\s+/g, '')
removeWhitespace(str) == SelectSeq(str, IsNotWhitespace)

\* str.replace(/[.,]$/, ''): one character, at the end of the input.
stripTrailing(str) ==
    IF Len(str) > 0 /\ str[Len(str)] \in {".", ","}
    THEN SubSeq(str, 1, Len(str) - 1)
    ELSE str

normalize(str) == toLowerCase(stripTrailing(removeWhitespace(str)))

Digits == <<"0", "1", "2", "3", "4", "5", "6", "7", "8", "9">>

\* Number.prototype.toString of a natural number.
RECURSIVE toString(_)
toString(n) ==
    IF n < 10 THEN <<Digits[n + 1]>>
    ELSE toString(n \div 10) \o <<Digits[(n % 10) + 1]>>

circledNumbers == <<"c1", "c2", "c3", "c4", "c5", "c6", "c7", "c8", "c9", "c10">>

\* circledNumbers[optionIndex]: undefined out of range.
circledNumber(optionIndex) ==
    IF optionIndex \in 0..(Len(circledNumbers) - 1)
    THEN circledNumbers[optionIndex + 1]
    ELSE Undefined

startsWith(str, prefix) ==
    /\ Len(prefix) <= Len(str)
    /\ SubSeq(str, 1, Len(prefix)) = prefix

includes(str, c) == \E i \in 1..Len(str) : str[i] = c

\* !option: null and the empty string are falsy.
Falsy(option) == option = Null \/ option = <<>>

\* IndexRules with the number compared as a prefix of the answer.
IndexRulesLoosePrefix(normAnswer, optionIndex) ==
    LET indexStr == toString(optionIndex + 1)
        circled == circledNumber(optionIndex)
    IN  \/ startsWith(normAnswer, indexStr)
        \/ startsWith(normAnswer, <<"(">> \o indexStr \o <<")">>)
        \/ circled # Undefined /\ includes(normAnswer, circled)

\* IndexRules without the prefix "n)".
IndexRulesWithoutParen(normAnswer, optionIndex) ==
    LET indexStr == toString(optionIndex + 1)
        circled == circledNumber(optionIndex)
    IN  \/ normAnswer = indexStr
        \/ circled # Undefined /\ normAnswer = <<circled>>
        \/ startsWith(normAnswer, indexStr \o <<".">>)
        \/ startsWith(normAnswer, <<"(">> \o indexStr \o <<")">>)
        \/ circled # Undefined /\ includes(normAnswer, circled)

\* The rules of isAnswerMatch after the direct comparison, on the normalized
\* answer.
IndexRules(normAnswer, optionIndex) ==
    LET indexStr == toString(optionIndex + 1)
        circled == circledNumber(optionIndex)
    IN  \/ normAnswer = indexStr
        \/ circled # Undefined /\ normAnswer = <<circled>>
        \/ startsWith(normAnswer, indexStr \o <<".">>)
        \/ startsWith(normAnswer, indexStr \o <<")">>)
        \/ startsWith(normAnswer, <<"(">> \o indexStr \o <<")">>)
        \/ circled # Undefined /\ includes(normAnswer, circled)

isAnswerMatch(option, answer, optionIndex) ==
    IF Falsy(option) THEN FALSE
    ELSE \/ normalize(option) = normalize(answer)
         \/ IndexRules(normalize(answer), optionIndex)

(***************************************************************************)
(* State.                                                                  *)
(***************************************************************************)
VARIABLES
    call,                  \* the last evaluation of a pure function
    questions,             \* Quiz: props.questions
    currentQuestionIndex,  \* Quiz: zero-based
    userAnswers,           \* Quiz: (string | null)[]
    checkedStates,         \* Quiz: boolean[]
    shortAnswerGrades,     \* Quiz: (Grade | null)[]
    tempShortAnswer,       \* Quiz: the staged free text
    showResults,           \* Quiz: the session is completed
    showScript,            \* Quiz: the passage script is visible
    onSubmitCalls,         \* Quiz: the arguments of every call of props.onSubmit
    component,             \* the component that is modelled: "Quiz" or "StudySession"
    mounted,               \* the component is mounted
    isSpeaking,            \* useState
    isLoadingTTS,          \* useState
    audioContextRef,       \* useRef: an audio context, or NoRef
    audioSourceRef,        \* useRef: an audio source, or NoRef
    speechCalls,           \* the calls of generateSpeech and where each stands
    audioContexts,         \* the state of the AudioContext of each call
    audioSources,          \* the AudioBufferSourceNode of each call
    closeCallbacks,        \* the contexts whose close().then callback is pending
    studyRuns,             \* StudySession: the runs of the fetch effect
    explanation,           \* StudySession: useState, the chunks shown
    explanationRef,        \* StudySession: useRef
    isLoadingExplanation,  \* StudySession: useState
    isStreamingExplanation, \* StudySession: useState
    explanationError,      \* StudySession: useState, NoRun for null
    illustration,          \* StudySession: useState, NoRun for null
    isLoadingIllustration, \* StudySession: useState
    summary,               \* StudySession: useState, NoRun for null
    isLoadingSummary,      \* StudySession: useState
    conversation,          \* StudySession: useState, ConversationMessage[]
    isAnswering,           \* StudySession: useState
    qnaError,              \* StudySession: useState, a flag for (string | null)
    followUpCalls,         \* StudySession: the calls of getFollowUpAnswerStream
    aiEvaluations,         \* Quiz: (ShortAnswerEvaluation | null)[]
    isAiGrading,           \* Quiz: useState
    aiCalls,               \* Quiz: the calls of evaluateShortAnswer
    history,               \* App: the navigation history, HistoryState[]
    historyIndex,          \* App: zero-based
    appStatus,             \* App: AppStatus
    apiKey,                \* App: useLocalStorage('gemini_api_key')
    keyValidation,         \* App: the key validateApiKey is checking, or NoValidation
    studyHistory,          \* StudySession, Dashboard: useLocalStorage('studyHistory')
    storedStudyHistory,    \* localStorage: the item 'studyHistory'
    now                    \* the clock read by new Date()

quizVars == <<questions, currentQuestionIndex, userAnswers, checkedStates,
              shortAnswerGrades, tempShortAnswer, showResults, showScript,
              onSubmitCalls>>

audioVars == <<isSpeaking, isLoadingTTS, audioContextRef, audioSourceRef,
               speechCalls, audioContexts, audioSources, closeCallbacks>>

qnaVars == <<conversation, isAnswering, qnaError, followUpCalls>>

studyVars == <<studyRuns, explanation, explanationRef, isLoadingExplanation,
               isStreamingExplanation, explanationError, illustration,
               isLoadingIllustration, summary, isLoadingSummary, qnaVars>>

gradingVars == <<aiEvaluations, isAiGrading, aiCalls>>

appVars == <<history, historyIndex, appStatus, apiKey, keyValidation>>

historyVars == <<studyHistory, storedStudyHistory, now>>

vars == <<call, quizVars, component, mounted, audioVars, studyVars,
          gradingVars, appVars, historyVars>>

(***************************************************************************)
(* Speech playback: the same code in StudySession and in Quiz.             *)
(***************************************************************************)
NoRef == 0

NoSource == [state |-> "none", onended |-> FALSE]

\* The source of call r is audible.
Playing(r) == audioSources[r].state = "playing" /\ audioContexts[r] = "running"

\* stopAudio of Quiz and stopAllAudio of StudySession, run on the contexts
\* and sources as the caller leaves them. close() of a context that is
\* already closing rejects, and its then callback never runs.
stopAudio(ctxs, srcs) ==
    /\ audioSources' =
           IF audioSourceRef # NoRef
           THEN [srcs EXCEPT ![audioSourceRef] =
                    [state |-> IF @.state = "playing" THEN "stopped" ELSE @.state,
                     onended |-> FALSE]]
           ELSE srcs
    /\ audioSourceRef' = NoRef
    /\ IF audioContextRef # NoRef /\ ctxs[audioContextRef] \in {"suspended", "running"}
       THEN /\ audioContexts' = [ctxs EXCEPT ![audioContextRef] = "closing"]
            /\ closeCallbacks' = closeCallbacks \cup {audioContextRef}
       ELSE /\ audioContexts' = ctxs
            /\ closeCallbacks' = closeCallbacks
    /\ audioContextRef' = audioContextRef
    /\ isSpeaking' = FALSE
    /\ isLoadingTTS' = FALSE

stopAllAudio(ctxs, srcs) == stopAudio(ctxs, srcs)

\* The part of handlePlayScript and handleToggleSpeak that follows the early
\* returns: the request is sent.
requestSpeech ==
    /\ Len(speechCalls) < MaxSpeechCalls
    /\ isLoadingTTS' = TRUE
    /\ speechCalls' = Append(speechCalls, "pending")
    /\ audioContexts' = Append(audioContexts, "none")
    /\ audioSources' = Append(audioSources, NoSource)
    /\ UNCHANGED <<isSpeaking, audioContextRef, audioSourceRef, closeCallbacks>>

\* The source of call r is created, connected and started.
startSource(r, ctxs) ==
    /\ audioContexts' = [ctxs EXCEPT ![r] = "running"]
    /\ audioSources' = [audioSources EXCEPT ![r] = [state |-> "playing", onended |-> TRUE]]
    /\ audioSourceRef' = r
    /\ isLoadingTTS' = FALSE
    /\ isSpeaking' = TRUE
    /\ speechCalls' = [speechCalls EXCEPT ![r] = "done"]

\* generateSpeech resolves: the context is created; when it is suspended the
\* handler awaits resume(), otherwise it starts the source.
SpeechResolved(r) ==
    /\ speechCalls[r] = "pending"
    /\ audioContextRef' = r
    /\ \/ /\ speechCalls' = [speechCalls EXCEPT ![r] = "resuming"]
          /\ audioContexts' = [audioContexts EXCEPT ![r] = "suspended"]
          /\ UNCHANGED <<isSpeaking, isLoadingTTS, audioSourceRef, audioSources>>
       \/ startSource(r, audioContexts)
    /\ UNCHANGED <<closeCallbacks, quizVars, component, mounted, studyVars, call,
                   gradingVars, appVars, historyVars>>

\* resume() settles: it rejects on a context that was closed meanwhile, and
\* the catch block stops the audio.
ResumeSettled(r) ==
    /\ speechCalls[r] = "resuming"
    /\ IF audioContexts[r] = "suspended"
       THEN /\ startSource(r, audioContexts)
            /\ UNCHANGED <<audioContextRef, closeCallbacks>>
       ELSE /\ stopAudio(audioContexts, audioSources)
            /\ speechCalls' = [speechCalls EXCEPT ![r] = "done"]
    /\ UNCHANGED <<quizVars, component, mounted, studyVars, call,
                   gradingVars, appVars, historyVars>>

\* generateSpeech rejects: the catch block stops the audio.
SpeechRejected(r) ==
    /\ speechCalls[r] = "pending"
    /\ stopAudio(audioContexts, audioSources)
    /\ speechCalls' = [speechCalls EXCEPT ![r] = "done"]
    /\ UNCHANGED <<quizVars, component, mounted, studyVars, call,
                   gradingVars, appVars, historyVars>>

\* The source of call r plays to its end: source.onended, when still set.
SourceEnded(r) ==
    /\ Playing(r)
    /\ IF audioSources[r].onended
       THEN stopAudio(audioContexts, [audioSources EXCEPT ![r].state = "ended"])
       ELSE /\ audioSources' = [audioSources EXCEPT ![r].state = "ended"]
            /\ UNCHANGED <<isSpeaking, isLoadingTTS, audioContextRef,
                           audioSourceRef, audioContexts, closeCallbacks>>
    /\ UNCHANGED <<speechCalls, quizVars, component, mounted, studyVars, call,
                   gradingVars, appVars, historyVars>>

\* audioContextRef.current.close().then(() => { audioContextRef.current = null })
CloseResolved(c) ==
    /\ c \in closeCallbacks
    /\ closeCallbacks' = closeCallbacks \ {c}
    /\ audioContexts' = [audioContexts EXCEPT ![c] = "closed"]
    /\ audioContextRef' = NoRef
    /\ UNCHANGED <<isSpeaking, isLoadingTTS, audioSourceRef, speechCalls,
                   audioSources, quizVars, component, mounted, studyVars, call,
                   gradingVars, appVars, historyVars>>

AudioInit ==
    /\ mounted = TRUE
    /\ isSpeaking = FALSE
    /\ isLoadingTTS = FALSE
    /\ audioContextRef = NoRef
    /\ audioSourceRef = NoRef
    /\ speechCalls = <<>>
    /\ audioContexts = <<>>
    /\ audioSources = <<>>
    /\ closeCallbacks = {}

(***************************************************************************)
(* The quiz session (components/Quiz.tsx).                                 *)
(***************************************************************************)
Grades == {"A", "B", "C", "D", "E"}

NoGrade == "null"

NoEvaluation == "null"

\* The questions a generated quiz is made of. The multiple-choice question
\* comes with a listening passage.
McQuestion ==
    [questionType |-> "multiple-choice",
     options |-> << <<"c1", "3">>, <<"c2", "5">>, <<"c3", "7">> >>,
     answer |-> <<"c2">>,
     passage |-> TRUE]

\* A true-false question that arrives without options.
OxQuestion ==
    [questionType |-> "ox", options |-> <<>>, answer |-> <<"O">>,
     passage |-> FALSE]

ShortAnswerQuestion ==
    [questionType |-> "short-answer", options |-> <<>>, answer |-> <<"a">>,
     passage |-> FALSE]

CreativityQuestion ==
    [questionType |-> "creativity", options |-> <<>>, answer |-> <<"a">>,
     passage |-> FALSE]

QuestionPool == {McQuestion, OxQuestion, ShortAnswerQuestion, CreativityQuestion}

\* What the user can type into the textarea.
TextInputs == {<<>>, <<" ">>, <<"a">>}

N == Len(questions)

currentQuestion == questions[currentQuestionIndex + 1]

IsMcOrOx(question) == question.questionType \in {"multiple-choice", "ox"}

userAnswer == userAnswers[currentQuestionIndex + 1]

isAnswerChecked == checkedStates[currentQuestionIndex + 1]

\* str.trim() !== ''
NotBlank(str) == \E i \in 1..Len(str) : str[i] \notin Whitespace

\* The options renderQuestionInput puts on the screen.
displayedOptions(question) ==
    IF question.questionType = "ox" /\ Len(question.options) = 0
    THEN << <<"O">>, <<"X">> >>
    ELSE question.options

\* The effect that follows a change of the index, the answers or the checked
\* flags: the staged text is the saved answer of a free-text question.
syncedTempShortAnswer(index, answers) ==
    IF ~IsMcOrOx(questions[index + 1])
    THEN IF Falsy(answers[index + 1]) THEN <<>> ELSE answers[index + 1]
    ELSE <<>>

hasAnswer ==
    IF IsMcOrOx(currentQuestion) THEN userAnswer # Null
    ELSE NotBlank(tempShortAnswer)

\* isCheckAnswerDisabled of a button that is never disabled.
isCheckAnswerDisabledNever == FALSE

isCheckAnswerDisabled == ~hasAnswer

\* isNextButtonDisabled without the grade check.
isNextButtonDisabledNever == FALSE

\* isNextButtonDisabled that a grade does not lift.
isNextButtonDisabledGraded ==
    /\ isAnswerChecked
    /\ ~IsMcOrOx(currentQuestion)

isNextButtonDisabled ==
    /\ isAnswerChecked
    /\ ~IsMcOrOx(currentQuestion)
    /\ shortAnswerGrades[currentQuestionIndex + 1] = NoGrade

\* handleAnswerSelect without its test of the checked flag.
handleAnswerSelectAlways(option) ==
    /\ userAnswers' = [userAnswers EXCEPT ![currentQuestionIndex + 1] = option]
    /\ tempShortAnswer' = syncedTempShortAnswer(currentQuestionIndex, userAnswers')
    /\ UNCHANGED <<questions, currentQuestionIndex, checkedStates,
                   shortAnswerGrades, showResults, showScript, onSubmitCalls>>
    /\ UNCHANGED <<component, mounted, audioVars, historyVars>>

handleAnswerSelect(option) ==
    /\ ~isAnswerChecked
    /\ userAnswers' = [userAnswers EXCEPT ![currentQuestionIndex + 1] = option]
    /\ tempShortAnswer' = syncedTempShortAnswer(currentQuestionIndex, userAnswers')
    /\ UNCHANGED <<questions, currentQuestionIndex, checkedStates,
                   shortAnswerGrades, showResults, showScript, onSubmitCalls>>
    /\ UNCHANGED <<component, mounted, audioVars, historyVars>>

handleShortAnswerChange(value) ==
    /\ ~isAnswerChecked
    /\ tempShortAnswer' = value
    /\ UNCHANGED <<questions, currentQuestionIndex, userAnswers, checkedStates,
                   shortAnswerGrades, showResults, showScript, onSubmitCalls>>
    /\ UNCHANGED <<component, mounted, audioVars, historyVars>>

\* The symbols of the math toolbar: text without whitespace.
mathSymbols == {<<"a">>}

\* insertMathSymbol: the selection start..end of the textarea is replaced by
\* the symbol.
insertMathSymbol(insert, start, end) ==
    /\ tempShortAnswer' =
           SubSeq(tempShortAnswer, 1, start) \o insert
               \o SubSeq(tempShortAnswer, end + 1, Len(tempShortAnswer))
    /\ UNCHANGED <<questions, currentQuestionIndex, userAnswers, checkedStates,
                   shortAnswerGrades, showResults, showScript, onSubmitCalls>>
    /\ UNCHANGED <<component, mounted, audioVars, historyVars>>

handleCheckAnswer ==
    /\ userAnswers' =
           IF ~IsMcOrOx(currentQuestion)
           THEN [userAnswers EXCEPT ![currentQuestionIndex + 1] = tempShortAnswer]
           ELSE userAnswers
    /\ checkedStates' = [checkedStates EXCEPT ![currentQuestionIndex + 1] = TRUE]
    /\ showScript' = TRUE
    /\ tempShortAnswer' = syncedTempShortAnswer(currentQuestionIndex, userAnswers')
    /\ UNCHANGED <<questions, currentQuestionIndex, shortAnswerGrades,
                   showResults, onSubmitCalls>>
    /\ UNCHANGED <<component, mounted, audioVars, historyVars>>

handleGradeSelection(grade) ==
    /\ shortAnswerGrades' =
           [shortAnswerGrades EXCEPT ![currentQuestionIndex + 1] = grade]
    /\ UNCHANGED <<questions, currentQuestionIndex, userAnswers, checkedStates,
                   tempShortAnswer, showResults, showScript, onSubmitCalls>>
    /\ UNCHANGED <<component, mounted, audioVars, historyVars>>

\* handlePrev clearing the grade of the question it goes back to.
handlePrevClearingGrade ==
    /\ currentQuestionIndex > 0
    /\ currentQuestionIndex' = currentQuestionIndex - 1
    /\ stopAudio(audioContexts, audioSources)
    /\ showScript' = FALSE
    /\ tempShortAnswer' = syncedTempShortAnswer(currentQuestionIndex', userAnswers)
    /\ shortAnswerGrades' =
           [shortAnswerGrades EXCEPT ![currentQuestionIndex] = NoGrade]
    /\ UNCHANGED <<questions, userAnswers, checkedStates,
                   showResults, onSubmitCalls, component, mounted, speechCalls,
                   historyVars>>

\* The effect of a change of currentQuestionIndex stops the audio and hides
\* the script.
handlePrev ==
    /\ currentQuestionIndex > 0
    /\ currentQuestionIndex' = currentQuestionIndex - 1
    /\ stopAudio(audioContexts, audioSources)
    /\ showScript' = FALSE
    /\ tempShortAnswer' = syncedTempShortAnswer(currentQuestionIndex', userAnswers)
    /\ UNCHANGED <<questions, userAnswers, checkedStates, shortAnswerGrades,
                   showResults, onSubmitCalls, component, mounted, speechCalls,
                   historyVars>>

\* options.findIndex(opt => opt === ans): zero-based, -1 when there is none.
findIndex(options, ans) ==
    IF \E i \in 1..Len(options) : options[i] = ans
    THEN (CHOOSE i \in 1..Len(options) :
              /\ options[i] = ans
              /\ \A j \in 1..(i - 1) : options[j] # ans) - 1
    ELSE -1

\* questionCorrect with grade C returning false.
questionCorrectOnlyAB(question, ans, grade) ==
    IF ~IsMcOrOx(question)
    THEN grade \in {"A", "B"}
    ELSE isAnswerMatch(ans, question.answer, findIndex(question.options, ans))

\* questionCorrect with grade D returning true.
questionCorrectDCounts(question, ans, grade) ==
    IF ~IsMcOrOx(question)
    THEN grade \in {"A", "B", "C", "D"}
    ELSE isAnswerMatch(ans, question.answer, findIndex(question.options, ans))

\* questionCorrect with the position counted from one.
questionCorrectOneBased(question, ans, grade) ==
    IF ~IsMcOrOx(question)
    THEN grade \in {"A", "B", "C"}
    ELSE isAnswerMatch(ans, question.answer, findIndex(question.options, ans) + 1)

\* One element of calculatedCorrectness.
questionCorrect(question, ans, grade) ==
    IF ~IsMcOrOx(question)
    THEN grade \in {"A", "B", "C"}
    ELSE isAnswerMatch(ans, question.answer, findIndex(question.options, ans))

calculatedCorrectness ==
    [i \in 1..N |->
        questionCorrect(questions[i], userAnswers[i], shortAnswerGrades[i])]

\* gradeQuarters with the points of B and C exchanged.
gradeQuartersBCSwapped(grade) ==
    CASE grade = "A" -> 4
      [] grade = "B" -> 2
      [] grade = "C" -> 3
      [] grade = "D" -> 1
      [] OTHER -> 0

\* The points of a grade, in quarters of a point.
gradeQuarters(grade) ==
    CASE grade = "A" -> 4
      [] grade = "B" -> 3
      [] grade = "C" -> 2
      [] grade = "D" -> 1
      [] OTHER -> 0

\* earnedQuarters that keeps the point of the first pass for an objective
\* question whatever its correctness.
earnedQuartersObjectiveFull(correctness, i) ==
    IF ~IsMcOrOx(questions[i])
    THEN gradeQuarters(shortAnswerGrades[i])
    ELSE 4

\* What the second pass of handleNext adds for question i, in quarters.
earnedQuarters(correctness, i) ==
    IF ~IsMcOrOx(questions[i])
    THEN gradeQuarters(shortAnswerGrades[i])
    ELSE IF correctness[i] THEN 4 ELSE 0

RECURSIVE SumQuarters(_, _)
SumQuarters(correctness, n) ==
    IF n = 0 THEN 0
    ELSE SumQuarters(correctness, n - 1) + earnedQuarters(correctness, n)

totalEarnedQuarters(correctness) == SumQuarters(correctness, N)

\* (totalEarnedPoints / length) * 100 as the fraction num / den.
scorePercentage(correctness) ==
    [num |-> totalEarnedQuarters(correctness) * 25, den |-> N]

correctCount(correctness) ==
    Cardinality({i \in 1..N : correctness[i] = TRUE})

\* The Quiz Result that handleQuizSubmit builds; its id and date are the
\* time of the call.
newResult(score, correctAnswers, totalQuestions, answers, correctness) ==
    [id |-> now,
     date |-> now,
     score |-> score,
     totalQuestions |-> totalQuestions,
     correctAnswers |-> correctAnswers,
     questions |-> questions,
     userAnswers |-> answers,
     correctness |-> correctness]

\* JSON.stringify leaves out a property whose value is undefined; of the
\* properties of a question only imageBase64 is ever set to undefined.
stringifyQuestion(q) ==
    IF "imageBase64" \in DOMAIN q
    THEN IF q["imageBase64"] = Absent
         THEN [f \in DOMAIN q \ {"imageBase64"} |-> q[f]]
         ELSE q
    ELSE q

\* JSON.parse(JSON.stringify(value)) of a list of Quiz Results.
stringifyParse(value) ==
    [i \in 1..Len(value) |->
        [value[i] EXCEPT !.questions =
            [k \in 1..Len(@) |-> stringifyQuestion(@[k])]]]

\* The effect of useLocalStorage: the item is rewritten with the new value.
setItem(value) == storedStudyHistory' = stringifyParse(value)

\* getItem that finds nothing: the hook starts from its initial value.
getItemInitialValue == <<>>

\* The initial state of useLocalStorage: the parsed item.
getItem == storedStudyHistory

\* handleQuizSubmit of StudySession: the result is appended to the copy of
\* the history the component holds, and the copy is stored.
handleQuizSubmit(score, correctAnswers, totalQuestions, answers, correctness) ==
    /\ studyHistory' =
           Append(studyHistory,
                  newResult(score, correctAnswers, totalQuestions, answers,
                            correctness))
    /\ setItem(studyHistory')
    /\ UNCHANGED now

\* On the last question onSubmit (handleQuizSubmit of StudySession) sets
\* quizFinished, the Quiz is unmounted and its cleanup stops the audio.
handleNext ==
    /\ stopAudio(audioContexts, audioSources)
    /\ IF currentQuestionIndex < N - 1
       THEN /\ currentQuestionIndex' = currentQuestionIndex + 1
            /\ showScript' = FALSE
            /\ tempShortAnswer' =
                   syncedTempShortAnswer(currentQuestionIndex', userAnswers)
            /\ UNCHANGED <<showResults, onSubmitCalls, mounted, historyVars>>
       ELSE /\ showResults' = TRUE
            /\ mounted' = FALSE
            /\ onSubmitCalls' = Append(onSubmitCalls,
                   [score |-> scorePercentage(calculatedCorrectness),
                    correctAnswers |-> correctCount(calculatedCorrectness),
                    totalQuestions |-> N,
                    userAnswers |-> userAnswers,
                    correctness |-> calculatedCorrectness])
            /\ handleQuizSubmit(scorePercentage(calculatedCorrectness),
                                correctCount(calculatedCorrectness),
                                N, userAnswers, calculatedCorrectness)
            /\ UNCHANGED <<currentQuestionIndex, showScript, tempShortAnswer>>
    /\ UNCHANGED <<questions, userAnswers, checkedStates, shortAnswerGrades,
                   component, speechCalls>>

(***************************************************************************)
(* The study session's fetch effect (StudySession).                        *)
(***************************************************************************)
NoRun == 0

\* The text of the first k chunks of the stream of run e; '' is NoText.
Text(e, k) == [run |-> e, chunks |-> k]

NoText == Text(NoRun, 0)

NewRun ==
    [isCancelled |-> FALSE,
     explanationTask |-> "request",
     currentText |-> 0,
     illustrationTask |-> "request",
     summaryTask |-> "request"]

\* The synchronous start of fetchExplanation, fetchIllustration and
\* fetchSummary in a new run of the effect.
startFetches(runs) ==
    /\ studyRuns' = Append(runs, NewRun)
    /\ isLoadingExplanation' = TRUE
    /\ isStreamingExplanation' = TRUE
    /\ explanation' = NoText
    /\ explanationRef' = NoText
    /\ explanationError' = NoRun
    /\ isLoadingIllustration' = TRUE
    /\ illustration' = NoRun
    /\ isLoadingSummary' = TRUE
    /\ summary' = NoRun

\* The cleanup of the effect sets isCancelled of its run.
cancelRun(runs) == [runs EXCEPT ![Len(runs)].isCancelled = TRUE]

\* getExplanationStream resolves.
ExplanationStreamOpened(e) ==
    /\ studyRuns[e].explanationTask = "request"
    /\ IF studyRuns[e].isCancelled
       THEN /\ studyRuns' = [studyRuns EXCEPT ![e].explanationTask = "done"]
            /\ UNCHANGED isLoadingExplanation
       ELSE /\ studyRuns' = [studyRuns EXCEPT ![e].explanationTask = "stream"]
            /\ isLoadingExplanation' = FALSE
    /\ UNCHANGED <<explanation, explanationRef, isStreamingExplanation,
                   explanationError, illustration, isLoadingIllustration,
                   summary, isLoadingSummary>>

\* The stream of run e yields a chunk.
ExplanationChunk(e) ==
    /\ studyRuns[e].explanationTask = "stream"
    /\ studyRuns[e].currentText < MaxChunks
    /\ IF studyRuns[e].isCancelled
       THEN /\ studyRuns' = [studyRuns EXCEPT ![e].explanationTask = "done"]
            /\ UNCHANGED <<explanation, explanationRef>>
       ELSE /\ studyRuns' = [studyRuns EXCEPT ![e].currentText = @ + 1]
            /\ explanationRef' = Text(e, studyRuns[e].currentText + 1)
            /\ explanation' = Text(e, studyRuns[e].currentText + 1)
    /\ UNCHANGED <<isLoadingExplanation, isStreamingExplanation,
                   explanationError, illustration, isLoadingIllustration,
                   summary, isLoadingSummary>>

\* The stream of run e ends: the finally block.
ExplanationStreamEnded(e) ==
    /\ studyRuns[e].explanationTask = "stream"
    /\ studyRuns' = [studyRuns EXCEPT ![e].explanationTask = "done"]
    /\ isStreamingExplanation' =
           IF studyRuns[e].isCancelled THEN isStreamingExplanation ELSE FALSE
    /\ UNCHANGED <<explanation, explanationRef, isLoadingExplanation,
                   explanationError, illustration, isLoadingIllustration,
                   summary, isLoadingSummary>>

\* The request or the stream of run e fails: the catch and finally blocks.
ExplanationFailed(e) ==
    /\ studyRuns[e].explanationTask \in {"request", "stream"}
    /\ studyRuns' = [studyRuns EXCEPT ![e].explanationTask = "done"]
    /\ IF studyRuns[e].isCancelled
       THEN UNCHANGED <<explanationError, isLoadingExplanation,
                        isStreamingExplanation>>
       ELSE /\ explanationError' = e
            /\ isLoadingExplanation' = FALSE
            /\ isStreamingExplanation' = FALSE
    /\ UNCHANGED <<explanation, explanationRef, illustration,
                   isLoadingIllustration, summary, isLoadingSummary>>

\* IllustrationResolved without the isCancelled checks.
IllustrationResolvedUnchecked(e, hasImage) ==
    /\ studyRuns[e].illustrationTask = "request"
    /\ studyRuns' = [studyRuns EXCEPT ![e].illustrationTask = "done"]
    /\ illustration' = IF hasImage THEN e ELSE NoRun
    /\ isLoadingIllustration' = FALSE
    /\ UNCHANGED <<explanation, explanationRef, isLoadingExplanation,
                   isStreamingExplanation, explanationError, summary,
                   isLoadingSummary>>

\* generateIllustration resolves with an image (hasImage) or with null.
IllustrationResolved(e, hasImage) ==
    /\ studyRuns[e].illustrationTask = "request"
    /\ studyRuns' = [studyRuns EXCEPT ![e].illustrationTask = "done"]
    /\ IF studyRuns[e].isCancelled
       THEN UNCHANGED <<illustration, isLoadingIllustration>>
       ELSE /\ illustration' = IF hasImage THEN e ELSE NoRun
            /\ isLoadingIllustration' = FALSE
    /\ UNCHANGED <<explanation, explanationRef, isLoadingExplanation,
                   isStreamingExplanation, explanationError, summary,
                   isLoadingSummary>>

IllustrationFailed(e) ==
    /\ studyRuns[e].illustrationTask = "request"
    /\ studyRuns' = [studyRuns EXCEPT ![e].illustrationTask = "done"]
    /\ isLoadingIllustration' =
           IF studyRuns[e].isCancelled THEN isLoadingIllustration ELSE FALSE
    /\ UNCHANGED <<explanation, explanationRef, isLoadingExplanation,
                   isStreamingExplanation, explanationError, illustration,
                   summary, isLoadingSummary>>

SummaryResolved(e) ==
    /\ studyRuns[e].summaryTask = "request"
    /\ studyRuns' = [studyRuns EXCEPT ![e].summaryTask = "done"]
    /\ IF studyRuns[e].isCancelled
       THEN UNCHANGED <<summary, isLoadingSummary>>
       ELSE /\ summary' = e
            /\ isLoadingSummary' = FALSE
    /\ UNCHANGED <<explanation, explanationRef, isLoadingExplanation,
                   isStreamingExplanation, explanationError, illustration,
                   isLoadingIllustration>>

\* SummaryFailed clearing the illustration as well.
SummaryFailedClearingIllustration(e) ==
    /\ studyRuns[e].summaryTask = "request"
    /\ studyRuns' = [studyRuns EXCEPT ![e].summaryTask = "done"]
    /\ isLoadingSummary' =
           IF studyRuns[e].isCancelled THEN isLoadingSummary ELSE FALSE
    /\ illustration' = NoRun
    /\ UNCHANGED <<explanation, explanationRef, isLoadingExplanation,
                   isStreamingExplanation, explanationError,
                   isLoadingIllustration, summary>>

SummaryFailed(e) ==
    /\ studyRuns[e].summaryTask = "request"
    /\ studyRuns' = [studyRuns EXCEPT ![e].summaryTask = "done"]
    /\ isLoadingSummary' =
           IF studyRuns[e].isCancelled THEN isLoadingSummary ELSE FALSE
    /\ UNCHANGED <<explanation, explanationRef, isLoadingExplanation,
                   isStreamingExplanation, explanationError, illustration,
                   isLoadingIllustration, summary>>

\* A step of a fetch of run e: a response, a chunk or a failure arrives.
FetchStep(e) ==
    \/ ExplanationStreamOpened(e)
    \/ ExplanationChunk(e)
    \/ ExplanationStreamEnded(e)
    \/ ExplanationFailed(e)
    \/ \E hasImage \in BOOLEAN : IllustrationResolved(e, hasImage)
    \/ IllustrationFailed(e)
    \/ SummaryResolved(e)
    \/ SummaryFailed(e)

FetchResponse ==
    /\ \E e \in 1..Len(studyRuns) : FetchStep(e)
    /\ UNCHANGED <<call, quizVars, component, mounted, audioVars,
                   gradingVars, appVars, historyVars, qnaVars>>

\* subjectName or standard.description changes: the cleanup of the running
\* effect, then the effect again.
StandardChanged ==
    /\ component = "StudySession"
    /\ mounted
    /\ Len(studyRuns) < MaxRuns
    /\ startFetches(cancelRun(studyRuns))
    /\ stopAllAudio(audioContexts, audioSources)
    /\ UNCHANGED <<call, quizVars, component, mounted, speechCalls,
                   gradingVars, appVars, historyVars, qnaVars>>

\* The study session is unmounted: the cleanup of the running effect.
StudyUnmounted ==
    /\ component = "StudySession"
    /\ mounted
    /\ mounted' = FALSE
    /\ studyRuns' = cancelRun(studyRuns)
    /\ stopAllAudio(audioContexts, audioSources)
    /\ UNCHANGED <<explanation, explanationRef, isLoadingExplanation,
                   isStreamingExplanation, explanationError, illustration,
                   isLoadingIllustration, summary, isLoadingSummary>>
    /\ UNCHANGED <<call, quizVars, component, speechCalls,
                   gradingVars, appVars, historyVars, qnaVars>>

\* No follow-up question has been asked.
NoConversation ==
    /\ conversation = <<>>
    /\ isAnswering = FALSE
    /\ qnaError = FALSE
    /\ followUpCalls = <<>>

\* The state after the mount of a study session.
StudyMounted ==
    /\ NoConversation
    /\ studyRuns = <<NewRun>>
    /\ isLoadingExplanation = TRUE
    /\ isStreamingExplanation = TRUE
    /\ explanation = NoText
    /\ explanationRef = NoText
    /\ explanationError = NoRun
    /\ isLoadingIllustration = TRUE
    /\ illustration = NoRun
    /\ isLoadingSummary = TRUE
    /\ summary = NoRun

\* A study session whose three fetches have answered.
StudyLoaded ==
    /\ NoConversation
    /\ studyRuns = <<[isCancelled |-> FALSE,
                      explanationTask |-> "done",
                      currentText |-> 1,
                      illustrationTask |-> "done",
                      summaryTask |-> "done"]>>
    /\ isLoadingExplanation = FALSE
    /\ isStreamingExplanation = FALSE
    /\ explanation = Text(1, 1)
    /\ explanationRef = Text(1, 1)
    /\ explanationError = NoRun
    /\ isLoadingIllustration = FALSE
    /\ illustration = 1
    /\ isLoadingSummary = FALSE
    /\ summary = 1

\* No quiz has been generated.
NoQuiz ==
    /\ questions = <<>>
    /\ currentQuestionIndex = 0
    /\ userAnswers = <<>>
    /\ checkedStates = <<>>
    /\ shortAnswerGrades = <<>>
    /\ tempShortAnswer = <<>>
    /\ showResults = FALSE
    /\ showScript = FALSE
    /\ onSubmitCalls = <<>>
    /\ aiEvaluations = <<>>
    /\ isAiGrading = FALSE
    /\ aiCalls = <<>>

IdleCall == [fn |-> "none"]

NoValidation == "none"

\* The entries of the navigation history.
Entry(view, standard) == [view |-> view, standard |-> standard]

\* The app shows a study session under a valid key.
AppInStudy ==
    /\ history = <<Entry("selector", "null"), Entry("study", "s1")>>
    /\ historyIndex = 1
    /\ appStatus = "key_valid"
    /\ apiKey = "valid"
    /\ keyValidation = NoValidation

\* The app shows the dashboard.
AppInDashboard ==
    /\ history = <<Entry("selector", "null"), Entry("dashboard", "null")>>
    /\ historyIndex = 1
    /\ appStatus = "key_valid"
    /\ apiKey = "valid"
    /\ keyValidation = NoValidation

\* No quiz has been completed on this browser.
NoStudyHistory ==
    /\ studyHistory = <<>>
    /\ storedStudyHistory = <<>>
    /\ now = 1

\* The state of a Quiz mounted with the given questions.
QuizMounted(qs) ==
    /\ questions = qs
    /\ currentQuestionIndex = 0
    /\ userAnswers = [i \in 1..Len(qs) |-> Null]
    /\ checkedStates = [i \in 1..Len(qs) |-> FALSE]
    /\ shortAnswerGrades = [i \in 1..Len(qs) |-> NoGrade]
    /\ tempShortAnswer = <<>>
    /\ showResults = FALSE
    /\ showScript = FALSE
    /\ onSubmitCalls = <<>>
    /\ aiEvaluations = [i \in 1..Len(qs) |-> NoEvaluation]
    /\ isAiGrading = FALSE
    /\ aiCalls = <<>>

Quizzes == UNION {[1..n -> QuestionPool] : n \in 1..MaxQuestions}

QuizInit ==
    /\ \E qs \in Quizzes : QuizMounted(qs)
    /\ component = "Quiz"
    /\ AudioInit
    /\ StudyLoaded
    /\ call = IdleCall
    /\ AppInStudy
    /\ NoStudyHistory

QuizShown == component = "Quiz" /\ mounted /\ ~showResults

\* The option buttons of an objective question, disabled once it is checked.
SelectOption ==
    /\ QuizShown
    /\ IsMcOrOx(currentQuestion)
    /\ ~isAnswerChecked
    /\ \E i \in 1..Len(displayedOptions(currentQuestion)) :
           handleAnswerSelect(displayedOptions(currentQuestion)[i])

\* The textarea of a free-text question, disabled once it is checked.
EditFreeText ==
    /\ QuizShown
    /\ ~IsMcOrOx(currentQuestion)
    /\ ~isAnswerChecked
    /\ \E value \in TextInputs : handleShortAnswerChange(value)

\* The buttons of the math toolbar, disabled once the question is checked.
\* The text stays one the user can type.
InsertMathSymbol ==
    /\ QuizShown
    /\ ~IsMcOrOx(currentQuestion)
    /\ ~isAnswerChecked
    /\ \E insert \in mathSymbols, start \in 0..Len(tempShortAnswer) :
           \E end \in start..Len(tempShortAnswer) :
               /\ insertMathSymbol(insert, start, end)
               /\ tempShortAnswer' \in TextInputs

\* The check-answer button: rendered while the question is unchecked.
CheckAnswer ==
    /\ QuizShown
    /\ ~isAnswerChecked
    /\ ~isCheckAnswerDisabled
    /\ handleCheckAnswer

\* SelectGrade with grade buttons under an unchecked question too.
SelectGradeUnchecked ==
    /\ QuizShown
    /\ ~IsMcOrOx(currentQuestion)
    /\ \E grade \in Grades : handleGradeSelection(grade)

\* The grade buttons: rendered under a checked free-text question.
SelectGrade ==
    /\ QuizShown
    /\ ~IsMcOrOx(currentQuestion)
    /\ isAnswerChecked
    /\ \E grade \in Grades : handleGradeSelection(grade)

\* The script button of a question with a passage.
ToggleScript ==
    /\ QuizShown
    /\ currentQuestion.passage
    /\ showScript' = ~showScript
    /\ UNCHANGED <<questions, currentQuestionIndex, userAnswers, checkedStates,
                   shortAnswerGrades, tempShortAnswer, showResults,
                   onSubmitCalls, component, mounted, audioVars, historyVars>>

\* The previous-question button: disabled on the first question.
GoBack ==
    /\ QuizShown
    /\ currentQuestionIndex # 0
    /\ handlePrev

\* Advance of a Quiz that still renders its buttons after the results.
AdvanceAfterResults ==
    /\ component = "Quiz"
    /\ isAnswerChecked
    /\ ~isNextButtonDisabled
    /\ handleNext

\* Advance with a next button under an unchecked question too.
AdvanceUnchecked ==
    /\ QuizShown
    /\ ~isNextButtonDisabled
    /\ handleNext

\* The next-question button: rendered once the question is checked.
Advance ==
    /\ QuizShown
    /\ isAnswerChecked
    /\ ~isNextButtonDisabled
    /\ handleNext

QuizNext ==
    /\ \/ SelectOption
       \/ EditFreeText
       \/ InsertMathSymbol
       \/ CheckAnswer
       \/ SelectGrade
       \/ ToggleScript
       \/ GoBack
       \/ Advance
    /\ UNCHANGED <<call, studyVars, gradingVars, appVars>>

(***************************************************************************)
(* The AI evaluation of a free-text answer (Quiz.tsx, handleAiGrading).    *)
(***************************************************************************)
\* handleAiGrading up to the await: the request is sent. The continuation
\* keeps the index and the evaluations of the render of the click.
handleAiGrading ==
    /\ Len(aiCalls) < MaxAiCalls
    /\ isAiGrading' = TRUE
    /\ aiCalls' = Append(aiCalls,
                         [state |-> "pending",
                          currentQuestionIndex |-> currentQuestionIndex,
                          aiEvaluations |-> aiEvaluations])
    /\ UNCHANGED aiEvaluations

\* A call that has settled: its continuation has run and holds nothing.
Settled ==
    [state |-> "settled", currentQuestionIndex |-> 0, aiEvaluations |-> <<>>]

\* The AI grading button: rendered under a checked free-text question that
\* has no evaluation, disabled while a request is in flight.
RequestAiEvaluation ==
    /\ QuizShown
    /\ ~IsMcOrOx(currentQuestion)
    /\ isAnswerChecked
    /\ aiEvaluations[currentQuestionIndex + 1] = NoEvaluation
    /\ ~isAiGrading
    /\ handleAiGrading
    /\ UNCHANGED <<call, quizVars, component, mounted, audioVars, studyVars,
                   appVars, historyVars>>

\* AiEvaluationResolved storing the result under the question on the screen.
AiEvaluationResolvedAtCurrent(c, grade) ==
    /\ aiCalls[c].state = "pending"
    /\ aiCalls' = [aiCalls EXCEPT ![c] = Settled]
    /\ IF mounted
       THEN /\ aiEvaluations' =
                   [aiCalls[c].aiEvaluations
                       EXCEPT ![currentQuestionIndex + 1] = grade]
            /\ isAiGrading' = FALSE
       ELSE UNCHANGED <<aiEvaluations, isAiGrading>>
    /\ UNCHANGED <<call, quizVars, component, mounted, audioVars, studyVars,
                   appVars, historyVars>>

\* evaluateShortAnswer resolves with a grade: the try and finally blocks. A
\* Quiz that is no longer mounted keeps no state.
AiEvaluationResolved(c, grade) ==
    /\ aiCalls[c].state = "pending"
    /\ aiCalls' = [aiCalls EXCEPT ![c] = Settled]
    /\ IF mounted
       THEN /\ aiEvaluations' =
                   [aiCalls[c].aiEvaluations
                       EXCEPT ![aiCalls[c].currentQuestionIndex + 1] = grade]
            /\ isAiGrading' = FALSE
       ELSE UNCHANGED <<aiEvaluations, isAiGrading>>
    /\ UNCHANGED <<call, quizVars, component, mounted, audioVars, studyVars,
                   appVars, historyVars>>

\* AiEvaluationFailed without the finally block.
AiEvaluationFailedNoFinally(c) ==
    /\ aiCalls[c].state = "pending"
    /\ aiCalls' = [aiCalls EXCEPT ![c] = Settled]
    /\ UNCHANGED <<aiEvaluations, isAiGrading>>
    /\ UNCHANGED <<call, quizVars, component, mounted, audioVars, studyVars,
                   appVars, historyVars>>

\* evaluateShortAnswer rejects: the catch and finally blocks.
AiEvaluationFailed(c) ==
    /\ aiCalls[c].state = "pending"
    /\ aiCalls' = [aiCalls EXCEPT ![c] = Settled]
    /\ IF mounted
       THEN isAiGrading' = FALSE
       ELSE UNCHANGED isAiGrading
    /\ UNCHANGED aiEvaluations
    /\ UNCHANGED <<call, quizVars, component, mounted, audioVars, studyVars,
                   appVars, historyVars>>

AiResponse ==
    \E c \in 1..Len(aiCalls) :
        \/ \E grade \in Grades : AiEvaluationResolved(c, grade)
        \/ AiEvaluationFailed(c)

\* The quizzes of the sessions with AI evaluation.
GradedQuizzes ==
    UNION {[1..n -> {McQuestion, ShortAnswerQuestion}] :
              n \in 1..MaxGradedQuestions}

GradingInit ==
    /\ \E qs \in GradedQuizzes : QuizMounted(qs)
    /\ component = "Quiz"
    /\ AudioInit
    /\ StudyLoaded
    /\ call = IdleCall
    /\ AppInStudy
    /\ NoStudyHistory

GradingNext == QuizNext \/ RequestAiEvaluation \/ AiResponse

SpecGrading == GradingInit /\ [][GradingNext]_vars

\* Quiz: the play button of the passage, disabled while the speech loads.
handlePlayScript ==
    /\ IF isSpeaking \/ isLoadingTTS
       THEN /\ stopAudio(audioContexts, audioSources)
            /\ UNCHANGED speechCalls
       ELSE requestSpeech
    /\ UNCHANGED <<call, quizVars, component, mounted, studyVars,
                   gradingVars, appVars, historyVars>>

PlayScript ==
    /\ QuizShown
    /\ currentQuestion.passage
    /\ ~isLoadingTTS
    /\ handlePlayScript

\* StudySession: the listen button, disabled while the explanation loads.
handleToggleSpeak ==
    /\ IF isSpeaking \/ isLoadingTTS
       THEN /\ stopAllAudio(audioContexts, audioSources)
            /\ UNCHANGED speechCalls
       ELSE IF explanation.chunks = 0
            THEN UNCHANGED audioVars
            ELSE requestSpeech
    /\ UNCHANGED <<call, quizVars, component, mounted, studyVars,
                   gradingVars, appVars, historyVars>>

ToggleSpeak ==
    /\ component = "StudySession"
    /\ mounted
    /\ ~isLoadingExplanation
    /\ ~isStreamingExplanation
    /\ handleToggleSpeak

\* The user leaves the study session while the quiz is shown: the cleanup
\* of the Quiz.
QuizUnmounted ==
    /\ QuizShown
    /\ mounted' = FALSE
    /\ stopAudio(audioContexts, audioSources)
    /\ UNCHANGED <<call, quizVars, component, speechCalls, studyVars,
                   gradingVars, appVars, historyVars>>

SpeechResponse ==
    \E r \in 1..Len(speechCalls) :
        \/ SpeechResolved(r)
        \/ ResumeSettled(r)
        \/ SpeechRejected(r)
        \/ SourceEnded(r)
        \/ CloseResolved(r)

\* A quiz of two listening questions.
SpeechQuiz == <<McQuestion, McQuestion>>

SpeechInit ==
    /\ \/ component = "Quiz" /\ QuizMounted(SpeechQuiz)
       \/ component = "StudySession" /\ NoQuiz
    /\ StudyLoaded
    /\ AudioInit
    /\ call = IdleCall
    /\ AppInStudy
    /\ NoStudyHistory

SpeechNext ==
    \/ QuizNext
    \/ PlayScript
    \/ QuizUnmounted
    \/ ToggleSpeak
    \/ StudyUnmounted
    \/ SpeechResponse

SpecSpeech == SpeechInit /\ [][SpeechNext]_vars

StudyInit ==
    /\ component = "StudySession"
    /\ StudyMounted
    /\ AudioInit
    /\ NoQuiz
    /\ call = IdleCall
    /\ AppInStudy
    /\ NoStudyHistory

StudyNext == FetchResponse \/ StandardChanged \/ StudyUnmounted

SpecStudy == StudyInit /\ [][StudyNext]_vars

Init == QuizInit

Next == QuizNext

Spec == Init /\ [][Next]_vars

(***************************************************************************)
(* The app (App.tsx): the credential and the navigation history.           *)
(***************************************************************************)
\* The keys a user can submit: none, one the service accepts and one it
\* rejects.
Keys == {"", "valid", "invalid"}

Standards == {"s1", "s2"}

currentHistoryEntry == history[historyIndex + 1]

currentView == currentHistoryEntry.view

selectedStandard == currentHistoryEntry.standard

\* renderContent shows the CurriculumSelector.
SelectorShown ==
    \/ currentView = "selector"
    \/ currentView = "study" /\ selectedStandard = "null"

\* handleApiKeySubmission up to the await: the key is stored and
\* validateApiKey is called.
handleApiKeySubmission(newKey) ==
    /\ apiKey' = newKey
    /\ appStatus' = "validating_key"
    /\ keyValidation' = newKey
    /\ UNCHANGED <<history, historyIndex>>

\* validateApiKey resolves and the handler goes on.
KeyAccepted ==
    /\ keyValidation = "valid"
    /\ keyValidation' = NoValidation
    /\ appStatus' = "key_valid"
    /\ UNCHANGED <<history, historyIndex, apiKey>>

\* validateApiKey rejects: no key, a key the service refuses, or a request
\* that fails.
KeyRejected ==
    /\ keyValidation # NoValidation
    /\ keyValidation' = NoValidation
    /\ appStatus' = "key_invalid"
    /\ UNCHANGED <<history, historyIndex, apiKey>>

\* navigate that keeps the entries after the current one.
navigateKeepingForward(view, standard) ==
    LET newHistory == history
        newEntry == Entry(view, standard)
        lastEntry == history[historyIndex + 1]
    IN  IF lastEntry.view = newEntry.view /\ lastEntry.standard = newEntry.standard
        THEN UNCHANGED <<history, historyIndex>>
        ELSE /\ Len(newHistory) < MaxHistory
             /\ history' = Append(newHistory, newEntry)
             /\ historyIndex' = Len(history') - 1

navigate(view, standard) ==
    LET newHistory == SubSeq(history, 1, historyIndex + 1)
        newEntry == Entry(view, standard)
        lastEntry == newHistory[Len(newHistory)]
    IN  IF lastEntry.view = newEntry.view /\ lastEntry.standard = newEntry.standard
        THEN UNCHANGED <<history, historyIndex>>
        ELSE /\ Len(newHistory) < MaxHistory
             /\ history' = Append(newHistory, newEntry)
             /\ historyIndex' = Len(history') - 1

handleStartStudy(standard) ==
    /\ IF appStatus # "key_valid"
       THEN UNCHANGED <<history, historyIndex>>
       ELSE navigate("study", standard)
    /\ UNCHANGED <<appStatus, apiKey, keyValidation>>

handleGoHome ==
    /\ navigate("selector", "null")
    /\ UNCHANGED <<appStatus, apiKey, keyValidation>>

handleShowDashboard ==
    /\ navigate("dashboard", "null")
    /\ UNCHANGED <<appStatus, apiKey, keyValidation>>

canGoBack == historyIndex > 0

canGoForward == historyIndex < Len(history) - 1

handleBack ==
    /\ canGoBack
    /\ historyIndex' = historyIndex - 1
    /\ UNCHANGED <<history, appStatus, apiKey, keyValidation>>

handleForward ==
    /\ canGoForward
    /\ historyIndex' = historyIndex + 1
    /\ UNCHANGED <<history, appStatus, apiKey, keyValidation>>

\* The confirm button of the key form of the CurriculumSelector.
SubmitKey ==
    /\ SelectorShown
    /\ appStatus # "validating_key"
    /\ \E newKey \in Keys : handleApiKeySubmission(newKey)

\* The start button of the CurriculumSelector.
StartStudy ==
    /\ SelectorShown
    /\ appStatus = "key_valid"
    /\ \E standard \in Standards : handleStartStudy(standard)

\* The state after the mount of the app: a stored key is validated.
AppInit ==
    /\ apiKey \in Keys
    /\ history = <<Entry("selector", "null")>>
    /\ historyIndex = 0
    /\ IF apiKey # ""
       THEN /\ appStatus = "validating_key"
            /\ keyValidation = apiKey
       ELSE /\ appStatus = "prompt_for_key"
            /\ keyValidation = NoValidation
    /\ component = "App"
    /\ AudioInit
    /\ StudyLoaded
    /\ NoQuiz
    /\ NoStudyHistory
    /\ call = IdleCall

AppNext ==
    /\ \/ SubmitKey
       \/ KeyAccepted
       \/ KeyRejected
       \/ StartStudy
       \/ handleGoHome
       \/ handleShowDashboard
       \/ handleBack
       \/ handleForward
    /\ UNCHANGED <<call, quizVars, component, mounted, audioVars, studyVars,
                   gradingVars, historyVars>>

SpecApp == AppInit /\ [][AppNext]_vars

(***************************************************************************)
(* The study history: StudySession appends, the Dashboard deletes.         *)
(***************************************************************************)
\* The quiz of a study session: the illustration of its question failed.
GeneratedQuiz ==
    <<[imageBase64 |-> Absent] @@ [imagePrompt |-> <<"p">>] @@ McQuestion>>

\* What a Quiz of one objective question hands to onSubmit.
SubmitArgs ==
    {[score |-> [num |-> IF questionCorrect(McQuestion, a, NoGrade)
                         THEN 100 ELSE 0,
                 den |-> 1],
      correctAnswers |-> IF questionCorrect(McQuestion, a, NoGrade)
                         THEN 1 ELSE 0,
      totalQuestions |-> 1,
      userAnswers |-> <<a>>,
      correctness |-> <<questionCorrect(McQuestion, a, NoGrade)>>] :
        a \in {McQuestion.options[1], McQuestion.options[2]}}

\* The last question of the quiz is advanced: onSubmit.
QuizCompleted ==
    /\ component = "StudySession"
    /\ ~showResults
    /\ Len(studyHistory) < MaxResults
    /\ \E args \in SubmitArgs :
           /\ handleQuizSubmit(args.score, args.correctAnswers,
                               args.totalQuestions, args.userAnswers,
                               args.correctness)
    /\ showResults' = TRUE
    /\ UNCHANGED <<questions, currentQuestionIndex, userAnswers, checkedStates,
                   shortAnswerGrades, tempShortAnswer, showScript,
                   onSubmitCalls, component>>

\* handleDeleteHistoryItem of the Dashboard; confirmed is the answer to
\* window.confirm.
handleDeleteHistoryItem(id, confirmed) ==
    LET Keep(item) == item.id # id
    IN  IF confirmed
        THEN /\ studyHistory' = SelectSeq(studyHistory, Keep)
             /\ setItem(studyHistory')
        ELSE UNCHANGED <<studyHistory, storedStudyHistory>>

\* The delete button of a row of the Dashboard.
DeleteHistoryItem ==
    /\ component = "Dashboard"
    /\ \E i \in 1..Len(studyHistory), confirmed \in BOOLEAN :
           handleDeleteHistoryItem(studyHistory[i].id, confirmed)
    /\ UNCHANGED <<now, quizVars, component>>

\* The done button of the result screen, or the dashboard button of the
\* header: the Dashboard is mounted and reads the item.
DashboardMounted ==
    /\ component = "StudySession"
    /\ component' = "Dashboard"
    /\ studyHistory' = getItem
    /\ setItem(studyHistory')
    /\ questions' = <<>>
    /\ showResults' = FALSE
    /\ UNCHANGED <<now, currentQuestionIndex, userAnswers, checkedStates,
                   shortAnswerGrades, tempShortAnswer, showScript, onSubmitCalls>>

\* A study session is started and its quiz generated: the StudySession is
\* mounted and reads the item.
StudySessionMounted ==
    /\ component = "Dashboard"
    /\ component' = "StudySession"
    /\ studyHistory' = getItem
    /\ setItem(studyHistory')
    /\ questions' = GeneratedQuiz
    /\ showResults' = FALSE
    /\ UNCHANGED <<now, currentQuestionIndex, userAnswers, checkedStates,
                   shortAnswerGrades, tempShortAnswer, showScript, onSubmitCalls>>

\* Time passes.
ClockTick ==
    /\ now < MaxClock
    /\ now' = now + 1
    /\ UNCHANGED <<studyHistory, storedStudyHistory, quizVars, component>>

HistoryInit ==
    /\ component = "Dashboard"
    /\ NoStudyHistory
    /\ NoQuiz
    /\ AudioInit
    /\ StudyLoaded
    /\ AppInDashboard
    /\ call = IdleCall

HistoryNext ==
    /\ \/ QuizCompleted
       \/ DeleteHistoryItem
       \/ DashboardMounted
       \/ StudySessionMounted
       \/ ClockTick
    /\ UNCHANGED <<call, mounted, audioVars, studyVars, gradingVars, appVars>>

SpecHistory == HistoryInit /\ [][HistoryNext]_vars

(***************************************************************************)
(* Quiz generation (services/geminiService.ts).                            *)
(***************************************************************************)
\* The imagePrompt of a parsed question: absent, empty, blank or a prompt.
ImagePrompts == {Absent, <<>>, <<" ">>, <<"p">>}

\* An illustration request that is in flight, and one that was not sent.
Pending == <<"pending">>

Unrequested == <<"unrequested">>

\* The elements of the parsed response.
ParsedQuestions ==
    {[imagePrompt |-> prompt] @@ q :
        q \in {McQuestion, ShortAnswerQuestion}, prompt \in ImagePrompts}

ParsedResponses == UNION {[1..n -> ParsedQuestions] : n \in 0..MaxGenerated}

\* q.imagePrompt && q.imagePrompt.trim() !== ''
HasImagePrompt(q) == q.imagePrompt # Absent /\ NotBlank(q.imagePrompt)

\* How a generateImages request can end.
ImageOutcomes == {"image", "emptyBytes", "noImages", "throws"}

\* generateIllustration: the image bytes, or null when the response has no
\* image or the request fails.
generateIllustration(outcome) ==
    CASE outcome = "image" -> <<"i">>
      [] outcome = "emptyBytes" -> <<>>
      [] OTHER -> Null

\* withImage that gives up the question when there is no image.
withImageOrNull(q, imageBase64) ==
    IF Falsy(imageBase64) THEN Null
    ELSE [imageBase64 |-> imageBase64] @@ q

\* { ...q, imageBase64: imageBase64 || undefined }
withImage(q, imageBase64) ==
    [imageBase64 |-> IF Falsy(imageBase64) THEN Absent ELSE imageBase64] @@ q

\* The value Promise.all resolves with: one element per parsed question, at
\* its position.
questionsWithImages(parsed, images) ==
    [i \in 1..Len(parsed) |->
        IF HasImagePrompt(parsed[i]) THEN withImage(parsed[i], images[i])
        ELSE parsed[i]]

\* generateContent resolves and its text is parsed: one illustration request
\* is sent for every question with a prompt.
GenerateQuestionsParsed ==
    /\ call = IdleCall
    /\ \E parsed \in ParsedResponses :
           call' = [fn |-> "generateQuestions",
                    parsed |-> parsed,
                    images |-> [i \in 1..Len(parsed) |->
                                   IF HasImagePrompt(parsed[i]) THEN Pending
                                   ELSE Unrequested],
                    outcome |-> "running",
                    result |-> <<>>]

\* generateContent rejects or its text is no JSON: handleApiError throws.
GenerateQuestionsFailed ==
    /\ call = IdleCall
    /\ call' = [fn |-> "generateQuestions",
                parsed |-> <<>>,
                images |-> <<>>,
                outcome |-> "thrown",
                result |-> <<>>]

\* One of the illustration requests settles, in any order.
IllustrationSettled ==
    /\ call.fn = "generateQuestions"
    /\ call.outcome = "running"
    /\ \E i \in 1..Len(call.images), outcome \in ImageOutcomes :
           /\ call.images[i] = Pending
           /\ call' = [call EXCEPT !.images[i] = generateIllustration(outcome)]

\* Promise.all resolves once every request has settled.
GenerateQuestionsReturned ==
    /\ call.fn = "generateQuestions"
    /\ call.outcome = "running"
    /\ \A i \in 1..Len(call.images) : call.images[i] # Pending
    /\ call' = [call EXCEPT !.outcome = "returned",
                            !.result = questionsWithImages(call.parsed, call.images)]

GenerateNext ==
    /\ \/ GenerateQuestionsParsed
       \/ GenerateQuestionsFailed
       \/ IllustrationSettled
       \/ GenerateQuestionsReturned
    /\ UNCHANGED <<quizVars, component, mounted, audioVars, studyVars,
                   gradingVars, appVars, historyVars>>

\* A study session that has not generated a quiz yet.
GenerateInit ==
    /\ call = IdleCall
    /\ NoQuiz
    /\ component = "StudySession"
    /\ AudioInit
    /\ StudyLoaded
    /\ AppInStudy
    /\ NoStudyHistory

SpecGenerate == GenerateInit /\ [][GenerateNext]_vars

(***************************************************************************)
(* Evaluations of the pure functions of the answer evaluator.              *)
(***************************************************************************)
NormalizeChars == {" ", ".", ",", "A", "a"}

NormalizeInputs == Strings(NormalizeChars, MaxStrLen)

TextChars == {" ", ".", "A"}

Texts == Strings(TextChars, MaxTextLen)

\* The answers that name position p: the decimal p + 1 and the circled digit.
IndexAnswers(p) == {toString(p + 1), <<circledNumbers[p + 1]>>}

Positions == 0..(Len(circledNumbers) - 1)

AllIndexAnswers == UNION {IndexAnswers(p) : p \in Positions}

\* How an answer key starts when it names an option by its number.
AnswerPrefixes ==
    {<<>>, <<"0">>, <<"1">>, <<"2">>, <<"1", "0">>,
     <<"0", ".">>, <<"1", ".">>, <<"1", ")">>, <<"0", ")">>,
     <<"(", "0", ")">>, <<"(", "1", ")">>, <<"(", "2", ")">>,
     <<"c1">>, <<"c2">>, <<"a">>}

MatchAnswers ==
    {prefix \o text : prefix \in AnswerPrefixes, text \in Texts}
        \cup AllIndexAnswers

MatchOptions ==
    {Null}
        \cup Texts
        \cup AllIndexAnswers
        \cup {<<"c1", "3">>, <<"c2", "5">>, <<"c3", "7">>, <<"O">>, <<"X">>,
              <<"a">>, <<"a", ",">>, <<"0">>, <<"x">>}

\* -1 is the sentinel of handleNext; the last index has no circled digit.
MatchIndices == -1..Len(circledNumbers)

EvaluateNormalize ==
    /\ call = IdleCall
    /\ \E str \in NormalizeInputs :
           call' = [fn |-> "normalize",
                    str |-> str,
                    once |-> normalize(str),
                    twice |-> normalize(normalize(str))]
    /\ UNCHANGED <<quizVars, component, mounted, audioVars, studyVars,
                   gradingVars, appVars, historyVars>>

EvaluateMatch ==
    /\ call = IdleCall
    /\ \E option \in MatchOptions, answer \in MatchAnswers,
          optionIndex \in MatchIndices :
           call' = [fn |-> "isAnswerMatch",
                    option |-> option,
                    answer |-> answer,
                    optionIndex |-> optionIndex,
                    result |-> isAnswerMatch(option, answer, optionIndex)]
    /\ UNCHANGED <<quizVars, component, mounted, audioVars, studyVars,
                   gradingVars, appVars, historyVars>>

PureInit ==
    /\ call = IdleCall
    /\ NoQuiz
    /\ component = "Quiz"
    /\ AudioInit
    /\ StudyLoaded
    /\ AppInStudy
    /\ NoStudyHistory

PureNext == EvaluateNormalize \/ EvaluateMatch

SpecPure == PureInit /\ [][PureNext]_vars

IsMatchCall == call.fn = "isAnswerMatch"

\* C5 as stated: an answer that is the decimal p + 1 or the circled digit of
\* p matches the (non-empty) option at position p and the option at no other
\* position.
C5_IndexAnswerMatchesOnlyItsPosition ==
    IsMatchCall =>
        \A p \in Positions :
            (call.answer \in IndexAnswers(p) /\ ~Falsy(call.option)
                 /\ call.optionIndex >= 0) =>
                (call.result <=> call.optionIndex = p)

\* C5 amended: such an answer matches the option at position p when that
\* option is not empty, and matches no option at another position whose
\* normalized text differs from the normalized answer.
C5_IndexAnswerMatchesItsPosition ==
    IsMatchCall =>
        \A p \in Positions :
            call.answer \in IndexAnswers(p) =>
                /\ (call.optionIndex = p /\ ~Falsy(call.option)) => call.result
                /\ (call.optionIndex >= 0 /\ call.optionIndex # p
                        /\ normalize(call.option) # normalize(call.answer))
                       => ~call.result

\* Options ["c1 3", "c2 5", "c3 7"], answer "c2": the second option matches.
C5_Witness ==
    /\ IsMatchCall
    /\ call.answer = <<"c2">>
    /\ call.option = <<"c2", "5">>
    /\ call.optionIndex = 1
    /\ call.result

\* C6: normalizing a normalized string gives the same string.
C6_NormalizeIdempotent ==
    call.fn = "normalize" => call.twice = call.once

\* C7: with the sentinel position -1 a non-empty candidate matches exactly
\* when its normalized text equals the normalized answer.
C7_SentinelIsDirectComparison ==
    (IsMatchCall /\ call.optionIndex = -1 /\ ~Falsy(call.option)) =>
        (call.result <=> normalize(call.option) = normalize(call.answer))

\* The decimal numeral of a position counted from one.
Numeral(i) ==
    CASE i + 1 = 0 -> <<"0">>
      [] i + 1 \in 1..9 -> <<Digits[i + 2]>>
      [] i + 1 = 10 -> <<"1", "0">>
      [] i + 1 = 11 -> <<"1", "1">>
      [] OTHER -> <<"1", "2">>

\* The circled glyphs of the positions that have one.
Glyphs == [i \in 0..9 |-> circledNumbers[i + 1]]

HasPrefix(str, prefix) ==
    \E k \in 0..Len(str) : SubSeq(str, 1, k) = prefix

\* C16: isAnswerMatch returns true exactly when the option is not empty and
\* one of the five rules holds on the normalized strings: the option equals
\* the answer; the answer is the decimal i + 1; the answer is the circled
\* glyph of i; the answer starts with "n." or "n)" or "(n)"; the answer
\* contains the circled glyph of i.
C16_MatchIffFiveRules ==
    IsMatchCall =>
        LET i == call.optionIndex
            a == normalize(call.answer)
            n == Numeral(i)
        IN  call.result <=>
                /\ call.option # Null
                /\ call.option # <<>>
                /\ \/ normalize(call.option) = a
                   \/ a = n
                   \/ i \in DOMAIN Glyphs /\ a = <<Glyphs[i]>>
                   \/ HasPrefix(a, n \o <<".">>)
                   \/ HasPrefix(a, n \o <<")">>)
                   \/ HasPrefix(a, <<"(">> \o n \o <<")">>)
                   \/ i \in DOMAIN Glyphs /\ \E j \in 1..Len(a) : a[j] = Glyphs[i]

\* The answer "1)A" matches the first option by its prefix alone.
C16_Witness ==
    /\ IsMatchCall
    /\ call.answer = <<"1", ")", "A">>
    /\ call.option = <<"x">>
    /\ call.optionIndex = 0
    /\ call.result

(***************************************************************************)
(* Scoring at completion.                                                  *)
(***************************************************************************)
Completed == showResults /\ Len(onSubmitCalls) > 0

Submitted == onSubmitCalls[Len(onSubmitCalls)]

IsFreeText(i) == questions[i].questionType \in {"short-answer", "creativity"}

IsObjective(i) == questions[i].questionType \in {"multiple-choice", "ox"}

\* The weight the specification gives question i, in quarters of a point.
ClaimedQuarters(i) ==
    IF IsObjective(i)
    THEN IF Submitted.correctness[i] THEN 4 ELSE 0
    ELSE CASE shortAnswerGrades[i] = "A" -> 4
           [] shortAnswerGrades[i] = "B" -> 3
           [] shortAnswerGrades[i] = "C" -> 2
           [] shortAnswerGrades[i] = "D" -> 1
           [] OTHER -> 0

RECURSIVE ClaimedSum(_)
ClaimedSum(n) == IF n = 0 THEN 0 ELSE ClaimedSum(n - 1) + ClaimedQuarters(n)

\* C1: at completion the score handed to onSubmit is
\* (sum of earned weights / N) x 100: with the weights in quarters,
\* score = (sum / 4 / N) x 100, compared as fractions.
C1_ScoreIsWeightedMean ==
    Completed =>
        /\ Submitted.totalQuestions = N
        /\ Submitted.score.num * 4 * N = ClaimedSum(N) * 100 * Submitted.score.den

\* A completed session of one correct multiple-choice question, one B and
\* one E: (1 + 0.75 + 0) / 3 x 100 = 175 / 3.
C1_Witness ==
    /\ Completed
    /\ N = 3
    /\ questions[1].questionType = "multiple-choice"
    /\ Submitted.correctness[1]
    /\ IsFreeText(2) /\ shortAnswerGrades[2] = "B"
    /\ IsFreeText(3) /\ shortAnswerGrades[3] = "E"
    /\ Submitted.score = [num |-> 175, den |-> 3]
    /\ Submitted.correctAnswers = 2

\* C2 as stated: a free-text question counts as correct only if its grade is
\* A or B.
C2_OnlyAOrBCorrect ==
    Completed =>
        \A i \in 1..N :
            (IsFreeText(i) /\ Submitted.correctness[i]) =>
                shortAnswerGrades[i] \in {"A", "B"}

\* C2 amended: a free-text question counts as correct exactly if its grade
\* is A, B or C, in the correctness array and in the correct count; D, E and
\* an unset grade never count.
C2_ABCCorrect ==
    Completed =>
        /\ \A i \in 1..N :
               IsFreeText(i) =>
                   (Submitted.correctness[i] <=> shortAnswerGrades[i] \in {"A", "B", "C"})
        /\ Submitted.correctAnswers =
               Cardinality({i \in 1..N : IsObjective(i) /\ Submitted.correctness[i]})
               + Cardinality({i \in 1..N :
                     IsFreeText(i) /\ shortAnswerGrades[i] \in {"A", "B", "C"}})

C2_Witness ==
    /\ Completed
    /\ \E i \in 1..N : IsFreeText(i) /\ shortAnswerGrades[i] = "C"
    /\ \E i \in 1..N : IsFreeText(i) /\ shortAnswerGrades[i] = "D"

\* Question i earns weight 1.
FullWeight(i) ==
    IF IsObjective(i) THEN Submitted.correctness[i] ELSE shortAnswerGrades[i] = "A"

OneDOthersPerfect ==
    \E d \in 1..N :
        /\ IsFreeText(d) /\ shortAnswerGrades[d] = "D"
        /\ \A i \in (1..N) \ {d} : FullWeight(i)

\* C3: with one question graded D and weight 1 on every other question the
\* score is ((N - 0.75) / N) x 100 and the correct count is N - 1.
C3_GradeDDiverges ==
    (Completed /\ OneDOthersPerfect) =>
        /\ Submitted.score.num * 4 * N = (4 * N - 3) * 100 * Submitted.score.den
        /\ Submitted.correctAnswers = N - 1

C3_Witness == Completed /\ OneDOthersPerfect /\ N >= 2

\* C4: the final score lies in [0, 100], and is 100 exactly when every
\* question earns weight 1.
C4_ScoreBounded ==
    Completed =>
        /\ Submitted.score.den > 0
        /\ 0 <= Submitted.score.num
        /\ Submitted.score.num <= 100 * Submitted.score.den
        /\ (Submitted.score.num = 100 * Submitted.score.den)
               <=> (\A i \in 1..N : FullWeight(i))

C4_Witness ==
    /\ Completed
    /\ N >= 2
    /\ Submitted.score.num = 100 * Submitted.score.den
    /\ \E i \in 1..N : IsFreeText(i)

\* C8: a step of handleNext is taken only from a state whose current
\* question is checked and, when it is free-text, has a grade selected.
C8_AdvanceGuard ==
    [][handleNext =>
          /\ checkedStates[currentQuestionIndex + 1]
          /\ IsFreeText(currentQuestionIndex + 1) =>
                 shortAnswerGrades[currentQuestionIndex + 1] \in Grades]_vars

\* A checked short-answer question with no grade selected.
C8_Witness ==
    /\ ~showResults
    /\ currentQuestion.questionType = "short-answer"
    /\ isAnswerChecked
    /\ shortAnswerGrades[currentQuestionIndex + 1] = NoGrade
    /\ ~ENABLED Advance

(***************************************************************************)
(* The study session's fetches and the speech playback.                    *)
(***************************************************************************)
fetchSlots == <<explanation, isLoadingExplanation, isStreamingExplanation,
                explanationError, illustration, isLoadingIllustration,
                summary, isLoadingSummary>>

\* C9: a step of a fetch whose run is cancelled writes none of the
\* explanation, illustration and summary state, and after the unmount that
\* state never changes.
C9_StaleFetchWritesNothing ==
    [][/\ \A e \in 1..Len(studyRuns) :
              (studyRuns[e].isCancelled /\ FetchStep(e)) => UNCHANGED fetchSlots
       /\ ~mounted => UNCHANGED fetchSlots]_vars

\* The illustration of the first run arrived after the unmount and was
\* dropped: the session still shows the illustration as loading.
C9_Witness ==
    /\ ~mounted
    /\ studyRuns[1].isCancelled
    /\ studyRuns[1].illustrationTask = "done"
    /\ illustration = NoRun
    /\ isLoadingIllustration

\* C10: at most one audio playback is active.
C10_SinglePlayback ==
    Cardinality({r \in 1..Len(speechCalls) : Playing(r)}) <= 1

\* C11: once the component is unmounted (the teardown that nothing follows)
\* no playback is active, whatever request was in flight at the unmount.
C11_NoPlaybackAfterTeardown ==
    ~mounted => \A r \in 1..Len(speechCalls) : ~Playing(r)

(***************************************************************************)
(* The app.                                                                *)
(***************************************************************************)
\* C12: a study session is displayed only while the credential status is
\* key_valid.
C12_StudyOnlyWithValidKey ==
    (currentView = "study" /\ selectedStandard # "null") =>
        appStatus = "key_valid"

(***************************************************************************)
(* Quiz generation.                                                        *)
(***************************************************************************)
IsGenerateCall == call.fn = "generateQuestions"

\* The illustration request of question i failed or returned nothing.
NoIllustration(i) == call.images[i] # Unrequested /\ Falsy(call.images[i])

\* C13: generateQuestions returns every question of the parsed response, in
\* order; a question whose illustration failed or returned nothing has no
\* imageBase64 and all its other fields unchanged; and once the response is
\* parsed the call does not fail, whatever the illustration requests do.
C13_AllQuestionsReturned ==
    IsGenerateCall =>
        /\ call.outcome = "thrown" => call.parsed = <<>> /\ call.images = <<>>
        /\ (call.outcome = "running"
               /\ \A i \in 1..Len(call.images) : call.images[i] # Pending)
              => ENABLED GenerateQuestionsReturned
        /\ call.outcome = "returned" =>
              /\ Len(call.result) = Len(call.parsed)
              /\ \A i \in 1..Len(call.parsed) :
                    /\ call.result[i] # Null
                    /\ DOMAIN call.parsed[i] \subseteq DOMAIN call.result[i]
                    /\ \A f \in DOMAIN call.parsed[i] :
                          call.result[i][f] = call.parsed[i][f]
                    /\ DOMAIN call.result[i] \subseteq
                          DOMAIN call.parsed[i] \cup {"imageBase64"}
                    /\ NoIllustration(i) =>
                          call.result[i]["imageBase64"] = Absent

\* A quiz of two questions is returned: the illustration of the first failed
\* and the second has its image.
C13_Witness ==
    /\ IsGenerateCall
    /\ call.outcome = "returned"
    /\ Len(call.result) = 2
    /\ call.images[1] = Null
    /\ call.result[1]["imageBase64"] = Absent
    /\ call.result[1].answer = call.parsed[1].answer
    /\ call.images[2] = <<"i">>
    /\ call.result[2]["imageBase64"] = <<"i">>

(***************************************************************************)
(* The persisted study history.                                            *)
(***************************************************************************)
\* The ids of the records of the persisted history.
StoredIds == {storedStudyHistory[i].id : i \in 1..Len(storedStudyHistory)}

\* A step that deletes the records with the given id.
DeletesId(id) ==
    /\ component = "Dashboard"
    /\ handleDeleteHistoryItem(id, TRUE)
    /\ UNCHANGED <<now, quizVars, component>>

\* The persisted history without the records with the given id.
WithoutId(id) ==
    LET Keep(item) == item.id # id
    IN  SelectSeq(storedStudyHistory, Keep)

sessionRecords == <<userAnswers, checkedStates, shortAnswerGrades, aiEvaluations>>

\* C15: a failed AI-evaluation request leaves the recorded answers, the
\* checked flags, the selected grades and the stored evaluations unchanged
\* and clears the grading flag; a checked free-text question can always be
\* graded with the grade buttons, and advanced once it has a grade.
C15_FailedEvaluationKeepsSession ==
    /\ [][\A c \in 1..Len(aiCalls) :
              AiEvaluationFailed(c) =>
                  /\ UNCHANGED sessionRecords
                  /\ mounted => ~isAiGrading']_vars
    /\ []((QuizShown /\ ~IsMcOrOx(currentQuestion) /\ isAnswerChecked) =>
              /\ ENABLED SelectGrade
              /\ shortAnswerGrades[currentQuestionIndex + 1] # NoGrade =>
                     ENABLED Advance)

\* The only AI-evaluation request of the session failed (no evaluation is
\* stored); the question was then graded by hand and advanced.
C15_Witness ==
    /\ QuizShown
    /\ Len(aiCalls) = 1
    /\ aiCalls[1] = Settled
    /\ ~isAiGrading
    /\ \A i \in 1..N : aiEvaluations[i] = NoEvaluation
    /\ questions[1].questionType = "short-answer"
    /\ shortAnswerGrades[1] = "B"
    /\ currentQuestionIndex = 1

(***************************************************************************)
(* The scoring of the objective questions.                                 *)
(***************************************************************************)
\* The positions, counted from zero, of the recorded answer of question i in
\* the option list of the question.
PositionsOfAnswer(i) ==
    {p \in 0..(Len(questions[i].options) - 1) :
        questions[i].options[p + 1] = Submitted.userAnswers[i]}

\* The Answer Evaluator matches the recorded answer of question i against the
\* authoritative answer at the position of the recorded answer; an answer
\* that is not in the option list of the question is given the position -1.
EvaluatorMatches(i) ==
    IF PositionsOfAnswer(i) # {}
    THEN \A p \in PositionsOfAnswer(i) :
             isAnswerMatch(Submitted.userAnswers[i], questions[i].answer, p)
    ELSE isAnswerMatch(Submitted.userAnswers[i], questions[i].answer, -1)

\* The points of the session, in quarters, with weight 1 for the objective
\* questions the evaluator matches.
RECURSIVE EvaluatorSum(_)
EvaluatorSum(n) ==
    IF n = 0 THEN 0
    ELSE EvaluatorSum(n - 1)
           + (IF IsObjective(n)
              THEN IF EvaluatorMatches(n) THEN 4 ELSE 0
              ELSE ClaimedQuarters(n))

\* C17: at completion an objective question is marked correct, and earns
\* weight 1, exactly when the Answer Evaluator matches its recorded answer
\* against the authoritative answer at the position of the recorded answer
\* in the option list; otherwise it is marked incorrect and earns 0.
C17_ObjectiveByEvaluator ==
    Completed =>
        /\ \A i \in 1..N :
               IsObjective(i) => (Submitted.correctness[i] <=> EvaluatorMatches(i))
        /\ Submitted.score.num * 4 * N
               = EvaluatorSum(N) * 100 * Submitted.score.den

\* Two multiple-choice questions: the second option, which the answer key
\* names, was chosen in the first and the third option in the second.
C17_Witness ==
    /\ Completed
    /\ N = 2
    /\ questions[1].questionType = "multiple-choice"
    /\ questions[2].questionType = "multiple-choice"
    /\ Submitted.userAnswers = << <<"c2", "5">>, <<"c3", "7">> >>
    /\ Submitted.correctness = <<TRUE, FALSE>>
    /\ Submitted.score = [num |-> 100, den |-> 2]

(***************************************************************************)
(* Checked questions.                                                      *)
(***************************************************************************)
\* The handlers of select-option and edit-free-text can take a step that
\* changes a recorded answer, a checked flag or the staged text.
SelectOrEditHasEffect ==
    \/ \E o \in 1..Len(displayedOptions(currentQuestion)) :
           ENABLED (/\ handleAnswerSelect(displayedOptions(currentQuestion)[o])
                    /\ <<userAnswers, checkedStates, tempShortAnswer>>'
                           # <<userAnswers, checkedStates, tempShortAnswer>>)
    \/ \E value \in TextInputs :
           ENABLED (/\ handleShortAnswerChange(value)
                    /\ <<userAnswers, checkedStates, tempShortAnswer>>'
                           # <<userAnswers, checkedStates, tempShortAnswer>>)

\* C18: select-option and edit-free-text have no effect while the current
\* question is checked; a checked flag, once set, is never cleared, and the
\* recorded answer of a checked question never changes, whatever the step:
\* select, edit, check, grade, AI evaluation, go-back or advance.
C18_CheckedIsFrozen ==
    /\ []((QuizShown /\ isAnswerChecked) => ~SelectOrEditHasEffect)
    /\ [][\A i \in 1..N :
              checkedStates[i] =>
                  /\ checkedStates'[i]
                  /\ userAnswers'[i] = userAnswers[i]]_vars

\* The first question was checked, the session moved on and came back to it,
\* with an AI evaluation stored on the way: its answer is the one checked.
C18_Witness ==
    /\ QuizShown
    /\ N = 2
    /\ currentQuestionIndex = 0
    /\ ~IsMcOrOx(questions[1])
    /\ checkedStates = <<TRUE, TRUE>>
    /\ userAnswers[1] = <<"a">>
    /\ shortAnswerGrades[1] # NoGrade
    /\ aiEvaluations[1] # NoEvaluation

(***************************************************************************)
(* check-answer.                                                           *)
(***************************************************************************)
\* An answer is present: a selected option of an objective question, staged
\* text that is not blank of a free-text question.
AnswerPresent ==
    IF currentQuestion.questionType \in {"multiple-choice", "ox"}
    THEN userAnswers[currentQuestionIndex + 1] # Null
    ELSE \E k \in 1..Len(tempShortAnswer) : tempShortAnswer[k] # " "

\* C19: check-answer is enabled only when the current question is unchecked
\* and an answer is present; taking it marks only the current question
\* checked, stores the staged text as the recorded answer of a free-text
\* question, and leaves the index and every other answer, checked flag and
\* grade unchanged.
C19_CheckAnswerFrame ==
    /\ [](ENABLED CheckAnswer =>
              /\ ~checkedStates[currentQuestionIndex + 1]
              /\ AnswerPresent)
    /\ [][CheckAnswer =>
              /\ checkedStates' =
                     [checkedStates EXCEPT ![currentQuestionIndex + 1] = TRUE]
              /\ userAnswers' =
                     IF currentQuestion.questionType \in {"multiple-choice", "ox"}
                     THEN userAnswers
                     ELSE [userAnswers EXCEPT
                               ![currentQuestionIndex + 1] = tempShortAnswer]
              /\ UNCHANGED <<currentQuestionIndex, shortAnswerGrades>>]_vars

\* The second question, a free-text one, has just been checked: the staged
\* text is its recorded answer and the first question is as it was.
C19_Witness ==
    /\ QuizShown
    /\ N = 2
    /\ currentQuestionIndex = 1
    /\ IsMcOrOx(questions[1])
    /\ ~IsMcOrOx(questions[2])
    /\ checkedStates = <<TRUE, TRUE>>
    /\ userAnswers = << <<"c1", "3">>, <<"a">> >>
    /\ shortAnswerGrades = <<NoGrade, NoGrade>>

(***************************************************************************)
(* go-back.                                                                *)
(***************************************************************************)
\* C20: go-back is enabled only when the index is greater than 0; it
\* decreases the index by exactly 1 and leaves the recorded answers, the
\* checked flags, the selected grades and the stored AI evaluations of every
\* question unchanged.
C20_GoBackFrame ==
    /\ [](ENABLED GoBack => currentQuestionIndex > 0)
    /\ [][GoBack =>
              /\ currentQuestionIndex' = currentQuestionIndex - 1
              /\ userAnswers' = userAnswers
              /\ checkedStates' = checkedStates
              /\ shortAnswerGrades' = shortAnswerGrades
              /\ aiEvaluations' = aiEvaluations]_vars

\* Back on the first question, a free-text one that keeps its answer, its
\* grade and its AI evaluation, while the second question is untouched.
C20_Witness ==
    /\ QuizShown
    /\ N = 2
    /\ currentQuestionIndex = 0
    /\ ~IsMcOrOx(questions[1])
    /\ checkedStates = <<TRUE, FALSE>>
    /\ userAnswers[1] = <<"a">>
    /\ userAnswers[2] = Null
    /\ shortAnswerGrades = <<"B", NoGrade>>
    /\ aiEvaluations[1] = "B"
    /\ showScript = FALSE

(***************************************************************************)
(* advance.                                                                *)
(***************************************************************************)
\* C21: advance on a question that is not the last moves the index from i to
\* i+1 and changes no answer, checked flag or grade; advance on the last
\* question completes the session and hands the score, the correct count,
\* the total count, the recorded answers and the correctness array to
\* onSubmit; onSubmit is called exactly once, and no session action is
\* possible after completion.
C21_AdvanceAndComplete ==
    /\ [][(Advance /\ currentQuestionIndex < N - 1) =>
              /\ currentQuestionIndex' = currentQuestionIndex + 1
              /\ ~showResults'
              /\ UNCHANGED <<userAnswers, checkedStates, shortAnswerGrades,
                             onSubmitCalls>>]_vars
    /\ [][(Advance /\ currentQuestionIndex >= N - 1) =>
              /\ showResults'
              /\ Len(onSubmitCalls') = Len(onSubmitCalls) + 1
              /\ UNCHANGED <<userAnswers, checkedStates, shortAnswerGrades>>]_vars
    /\ [][onSubmitCalls' # onSubmitCalls =>
              Advance /\ currentQuestionIndex = N - 1]_vars
    /\ [](Len(onSubmitCalls) <= 1)
    /\ [](showResults <=> Len(onSubmitCalls) = 1)
    /\ [](showResults =>
              /\ Submitted.totalQuestions = N
              /\ Submitted.userAnswers = userAnswers
              /\ Len(Submitted.correctness) = N
              /\ Submitted.correctAnswers =
                     Cardinality({i \in 1..N : Submitted.correctness[i]})
              /\ Submitted.score.num * 4 * N
                     = EvaluatorSum(N) * 100 * Submitted.score.den
              /\ ~ENABLED Next)

\* A session of three questions that has advanced twice and completed.
C21_Witness ==
    /\ showResults
    /\ N = 3
    /\ currentQuestionIndex = 2
    /\ Len(onSubmitCalls) = 1
    /\ Submitted.totalQuestions = 3
    /\ Submitted.correctAnswers = 2

(***************************************************************************)
(* Grades and AI evaluations.                                              *)
(***************************************************************************)
\* C22: a question has a selected grade or a stored AI evaluation only if it
\* is a free-text question that has been checked; select-grade and
\* request-ai-evaluation are never available on an unchecked question or on
\* an objective question.
C22_GradesOnlyOnCheckedFreeText ==
    /\ \A i \in 1..N :
           (shortAnswerGrades[i] # NoGrade \/ aiEvaluations[i] # NoEvaluation)
               => (IsFreeText(i) /\ checkedStates[i])
    /\ (ENABLED SelectGrade \/ ENABLED RequestAiEvaluation) =>
           /\ IsFreeText(currentQuestionIndex + 1)
           /\ checkedStates[currentQuestionIndex + 1]

\* A multiple-choice question and a free-text question, both checked: the
\* free-text one has a grade and an AI evaluation, the other has neither.
C22_Witness ==
    /\ QuizShown
    /\ N = 2
    /\ questions[1].questionType = "multiple-choice"
    /\ questions[2].questionType = "short-answer"
    /\ checkedStates = <<TRUE, TRUE>>
    /\ shortAnswerGrades = <<NoGrade, "A">>
    /\ aiEvaluations = <<NoEvaluation, "C">>

(***************************************************************************)
(* The three requests of a study session.                                  *)
(***************************************************************************)
explanationSlot ==
    <<explanation, explanationRef, isLoadingExplanation,
      isStreamingExplanation, explanationError>>

illustrationSlot == <<illustration, isLoadingIllustration>>

summarySlot == <<summary, isLoadingSummary>>

\* The step is a response to the explanation, the illustration or the
\* summary request of run e.
IsExplanationStep(e) ==
    /\ studyRuns'[e].explanationTask # studyRuns[e].explanationTask
       \/ studyRuns'[e].currentText # studyRuns[e].currentText
    /\ Len(studyRuns') = Len(studyRuns)

IsIllustrationStep(e) ==
    /\ studyRuns'[e].illustrationTask # studyRuns[e].illustrationTask
    /\ Len(studyRuns') = Len(studyRuns)

IsSummaryStep(e) ==
    /\ studyRuns'[e].summaryTask # studyRuns[e].summaryTask
    /\ Len(studyRuns') = Len(studyRuns)

\* The three requests of the running effect have been answered.
AllAnswered ==
    /\ ~studyRuns[Len(studyRuns)].isCancelled
    /\ studyRuns[Len(studyRuns)].explanationTask = "done"
    /\ studyRuns[Len(studyRuns)].illustrationTask = "done"
    /\ studyRuns[Len(studyRuns)].summaryTask = "done"

\* C23: the explanation, illustration and summary requests of a study
\* session are independent: each response writes only its own state slot
\* and its own loading and error flags, so that whatever the order of the
\* three responses, each a success or a failure, the final state of each
\* slot is the outcome of its own request.
C23_FetchesIndependent ==
    /\ [][\A e \in 1..Len(studyRuns) :
              /\ IsExplanationStep(e) =>
                     UNCHANGED <<illustrationSlot, summarySlot>>
              /\ IsIllustrationStep(e) =>
                     UNCHANGED <<explanationSlot, summarySlot>>
              /\ IsSummaryStep(e) =>
                     UNCHANGED <<explanationSlot, illustrationSlot>>]_vars
    /\ [](AllAnswered =>
              /\ explanation =
                     IF studyRuns[Len(studyRuns)].currentText = 0
                     THEN NoText
                     ELSE Text(Len(studyRuns),
                               studyRuns[Len(studyRuns)].currentText)
              /\ explanationRef = explanation
              /\ ~isStreamingExplanation
              /\ explanationError \in {NoRun, Len(studyRuns)}
              /\ ~isLoadingExplanation
              /\ illustration \in {NoRun, Len(studyRuns)}
              /\ ~isLoadingIllustration
              /\ summary \in {NoRun, Len(studyRuns)}
              /\ ~isLoadingSummary)

\* The second run of the effect has been answered, while requests of the
\* first are still open: the explanation failed after one chunk, the
\* illustration arrived and the summary failed.
C23_Witness ==
    /\ Len(studyRuns) = 2
    /\ AllAnswered
    /\ studyRuns[1].illustrationTask = "request"
    /\ explanation = Text(2, 1)
    /\ explanationError = 2
    /\ illustration = 2
    /\ summary = NoRun

(***************************************************************************)
(* The follow-up questions of a study session (StudySession,               *)
(* handleAskQuestion).                                                     *)
(***************************************************************************)
\* What the user can submit: a question or blanks.
UserQuestions == {<<"q">>, <<" ">>}

\* chunk.text of the chunks of an answer stream.
ChunkTexts == {<<"x">>, <<"y">>}

ConversationMessage(role, text) == [role |-> role, text |-> text]

\* A call whose continuation has ended: it holds nothing.
FollowUpSettled == [state |-> "done", chunks |-> 0, conversation |-> <<>>]

\* handleAskQuestion up to the await. The continuation keeps the
\* conversation of the render of the submit.
handleAskQuestion(userQuestion) ==
    /\ NotBlank(userQuestion)
    /\ ~isAnswering
    /\ Len(followUpCalls) < MaxFollowUps
    /\ isAnswering' = TRUE
    /\ qnaError' = FALSE
    /\ conversation' =
           conversation \o <<ConversationMessage("user", userQuestion),
                             ConversationMessage("model", <<>>)>>
    /\ followUpCalls' =
           Append(followUpCalls,
                  [state |-> "request", chunks |-> 0,
                   conversation |-> conversation])

\* The form of the follow-up question.
AskQuestion ==
    /\ component = "StudySession"
    /\ mounted
    /\ \E userQuestion \in UserQuestions : handleAskQuestion(userQuestion)
    /\ UNCHANGED <<studyRuns, explanation, explanationRef,
                   isLoadingExplanation, isStreamingExplanation,
                   explanationError, illustration, isLoadingIllustration,
                   summary, isLoadingSummary>>
    /\ UNCHANGED <<call, quizVars, component, mounted, audioVars,
                   gradingVars, appVars, historyVars>>

\* getFollowUpAnswerStream of call c resolves.
FollowUpStreamOpened(c) ==
    /\ followUpCalls[c].state = "request"
    /\ followUpCalls' = [followUpCalls EXCEPT ![c].state = "stream"]
    /\ UNCHANGED <<conversation, isAnswering, qnaError>>

\* The updater of the chunk: the text is added to the last message when it
\* is a message of the model.
appendChunk(prev, chunkText) ==
    IF prev[Len(prev)].role = "model"
    THEN [prev EXCEPT ![Len(prev)].text = @ \o chunkText]
    ELSE prev

\* The stream of call c yields a chunk. A study session that is no longer
\* mounted keeps no state.
FollowUpChunk(c, chunkText) ==
    /\ followUpCalls[c].state = "stream"
    /\ followUpCalls[c].chunks < MaxChunks
    /\ followUpCalls' = [followUpCalls EXCEPT ![c].chunks = @ + 1]
    /\ conversation' =
           IF mounted /\ Len(conversation) > 0
           THEN appendChunk(conversation, chunkText)
           ELSE conversation
    /\ UNCHANGED <<isAnswering, qnaError>>

\* The stream of call c ends: the finally block.
FollowUpStreamEnded(c) ==
    /\ followUpCalls[c].state = "stream"
    /\ followUpCalls' = [followUpCalls EXCEPT ![c] = FollowUpSettled]
    /\ isAnswering' = IF mounted THEN FALSE ELSE isAnswering
    /\ UNCHANGED <<conversation, qnaError>>

\* prev.slice(0, -n)
sliceOff(prev, n) ==
    SubSeq(prev, 1, IF Len(prev) > n THEN Len(prev) - n ELSE 0)

\* FollowUpFailed removing the turn of the model only.
FollowUpFailedKeepingQuestion(c) ==
    /\ followUpCalls[c].state \in {"request", "stream"}
    /\ followUpCalls' = [followUpCalls EXCEPT ![c] = FollowUpSettled]
    /\ IF mounted
       THEN /\ qnaError' = TRUE
            /\ conversation' = sliceOff(conversation, 1)
            /\ isAnswering' = FALSE
       ELSE UNCHANGED <<conversation, isAnswering, qnaError>>

\* The request or the stream of call c fails: the catch and finally blocks.
FollowUpFailed(c) ==
    /\ followUpCalls[c].state \in {"request", "stream"}
    /\ followUpCalls' = [followUpCalls EXCEPT ![c] = FollowUpSettled]
    /\ IF mounted
       THEN /\ qnaError' = TRUE
            /\ conversation' = sliceOff(conversation, 2)
            /\ isAnswering' = FALSE
       ELSE UNCHANGED <<conversation, isAnswering, qnaError>>

FollowUpStep(c) ==
    \/ FollowUpStreamOpened(c)
    \/ \E chunkText \in ChunkTexts : FollowUpChunk(c, chunkText)
    \/ FollowUpStreamEnded(c)
    \/ FollowUpFailed(c)

FollowUpResponse ==
    /\ \E c \in 1..Len(followUpCalls) : FollowUpStep(c)
    /\ UNCHANGED <<studyRuns, explanation, explanationRef,
                   isLoadingExplanation, isStreamingExplanation,
                   explanationError, illustration, isLoadingIllustration,
                   summary, isLoadingSummary>>
    /\ UNCHANGED <<call, quizVars, component, mounted, audioVars,
                   gradingVars, appVars, historyVars>>

FollowUpInit ==
    /\ component = "StudySession"
    /\ StudyLoaded
    /\ AudioInit
    /\ NoQuiz
    /\ call = IdleCall
    /\ AppInStudy
    /\ NoStudyHistory

FollowUpNext == AskQuestion \/ FollowUpResponse \/ StudyUnmounted

SpecFollowUp == FollowUpInit /\ [][FollowUpNext]_vars

\* The calls of getFollowUpAnswerStream that have not settled.
OpenFollowUps ==
    {c \in 1..Len(followUpCalls) : followUpCalls[c].state # "done"}

\* C24: while a follow-up answer is streamed no second question is
\* accepted; each fragment is appended, in arrival order, to the text of the
\* last turn, a turn of the model, and to no other turn; if the request or
\* the stream fails, the question and the partial turn of the model are both
\* removed: the conversation is what it was before the question.
C24_FollowUpStreaming ==
    /\ [](isAnswering => ~ENABLED AskQuestion)
    /\ [](Cardinality(OpenFollowUps) <= 1)
    /\ [](mounted => (isAnswering <=> OpenFollowUps # {}))
    /\ [][\A c \in 1..Len(followUpCalls) : \A chunkText \in ChunkTexts :
              (mounted /\ FollowUpChunk(c, chunkText)) =>
                  /\ Len(conversation') = Len(conversation)
                  /\ conversation[Len(conversation)].role = "model"
                  /\ conversation'[Len(conversation)].text =
                         conversation[Len(conversation)].text \o chunkText
                  /\ \A t \in 1..(Len(conversation) - 1) :
                         conversation'[t] = conversation[t]]_vars
    /\ [][\A c \in 1..Len(followUpCalls) :
              (mounted /\ FollowUpFailed(c)) =>
                  conversation' = followUpCalls[c].conversation]_vars

\* An answer of two fragments was streamed to the end; the stream of the
\* second question then failed, and the conversation is again the
\* first question and its answer.
C24_Witness ==
    /\ mounted
    /\ Len(followUpCalls) = 2
    /\ OpenFollowUps = {}
    /\ qnaError
    /\ ~isAnswering
    /\ conversation = <<ConversationMessage("user", <<"q">>),
                        ConversationMessage("model", <<"x", "y">>)>>

(***************************************************************************)
(* The questions behind the current one.                                   *)
(***************************************************************************)
\* C25: while the session is in progress every question with an index lower
\* than the current index is checked and, if free-text, has a selected
\* grade; at completion every question is checked, has a recorded answer
\* that is not null and, if free-text, has a grade: no question is scored
\* with an unset grade.
C25_PassedQuestionsSettled ==
    /\ QuizShown =>
           \A i \in 1..currentQuestionIndex :
               /\ checkedStates[i]
               /\ IsFreeText(i) => shortAnswerGrades[i] \in Grades
    /\ Completed =>
           \A i \in 1..N :
               /\ checkedStates[i]
               /\ Submitted.userAnswers[i] # Null
               /\ IsFreeText(i) => shortAnswerGrades[i] \in Grades

\* A completed session of three questions, the last two of them free-text
\* and graded with the lowest grades.
C25_Witness ==
    /\ Completed
    /\ N = 3
    /\ IsObjective(1)
    /\ IsFreeText(2)
    /\ IsFreeText(3)
    /\ shortAnswerGrades = <<NoGrade, "D", "E">>
    /\ checkedStates = <<TRUE, TRUE, TRUE>>

(***************************************************************************)
(* The option shown as correct and the option scored as correct.           *)
(***************************************************************************)
\* A true-false question that arrives without options and whose answer
\* names the first option by its number.
OxQuestionByNumber ==
    [questionType |-> "ox", options |-> <<>>, answer |-> <<"1">>,
     passage |-> FALSE]

\* A multiple-choice question whose options are numbers.
NumberQuestion ==
    [questionType |-> "multiple-choice",
     options |-> << <<"2">>, <<"3">>, <<"4">> >>,
     answer |-> <<"3">>,
     passage |-> FALSE]

\* A multiple-choice question that arrives without options.
McQuestionWithoutOptions ==
    [questionType |-> "multiple-choice", options |-> <<>>, answer |-> <<"a">>,
     passage |-> FALSE]

HighlightPool ==
    {McQuestion, OxQuestion, OxQuestionByNumber, NumberQuestion,
     McQuestionWithoutOptions, ShortAnswerQuestion}

HighlightQuizzes ==
    UNION {[1..n -> HighlightPool] : n \in 1..MaxGradedQuestions}

HighlightInit ==
    /\ \E qs \in HighlightQuizzes : QuizMounted(qs)
    /\ component = "Quiz"
    /\ AudioInit
    /\ StudyLoaded
    /\ call = IdleCall
    /\ AppInStudy
    /\ NoStudyHistory

SpecHighlight == HighlightInit /\ [][QuizNext]_vars

\* isCorrectAnswer of renderQuestionInput and getOptionClasses, for the
\* option displayed at position index, counted from zero.
isCorrectAnswer(option, index) ==
    isAnswerMatch(option, currentQuestion.answer, index)

\* showCorrectLabel of renderQuestionInput.
showCorrectLabel(option, index) ==
    isAnswerChecked /\ isCorrectAnswer(option, index)

\* C26: after check-answer an option of an objective question is shown as
\* the correct answer if and only if selecting it would make the question
\* count as correct in the final scoring, the default options of an ox
\* question that arrived without options included.
C26_HighlightIffScored ==
    (QuizShown /\ IsMcOrOx(currentQuestion) /\ isAnswerChecked) =>
        \A k \in 1..Len(displayedOptions(currentQuestion)) :
            showCorrectLabel(displayedOptions(currentQuestion)[k], k - 1)
                <=> questionCorrect(currentQuestion,
                                    displayedOptions(currentQuestion)[k],
                                    NoGrade)

\* The options on the screen are pairwise distinct after normalization.
DistinctOptions ==
    \A j, k \in 1..Len(displayedOptions(currentQuestion)) :
        j # k => normalize(displayedOptions(currentQuestion)[j])
                     # normalize(displayedOptions(currentQuestion)[k])

\* The positions, counted from one, of the options isAnswerMatch judges a
\* match at their own position.
MatchedOptions ==
    {k \in 1..Len(displayedOptions(currentQuestion)) :
        isCorrectAnswer(displayedOptions(currentQuestion)[k], k - 1)}

\* C27: for an objective question whose options are pairwise distinct after
\* normalization at most one option position is judged a match by
\* isAnswerMatch, so that at most one option is shown and scored as correct.
C27_AtMostOneMatch ==
    (QuizShown /\ IsMcOrOx(currentQuestion) /\ isAnswerChecked
         /\ DistinctOptions) =>
        /\ Cardinality(MatchedOptions) <= 1
        /\ Cardinality({k \in 1..Len(displayedOptions(currentQuestion)) :
               questionCorrect(currentQuestion,
                               displayedOptions(currentQuestion)[k],
                               NoGrade)}) <= 1

(***************************************************************************)
(* AI evaluation and navigation.                                           *)
(***************************************************************************)
\* The AI-evaluation requests in flight.
PendingAiCalls == {c \in 1..Len(aiCalls) : aiCalls[c].state = "pending"}

\* C28: when the user goes back or advances while an AI-evaluation request
\* is in flight, the result is stored for the question on which it was
\* requested and for no other; no stored AI evaluation and no selected grade
\* is lost or overwritten by it; at most one request is in flight.
C28_EvaluationStoredWhereRequested ==
    /\ [](Cardinality(PendingAiCalls) <= 1)
    /\ [][\A c \in 1..Len(aiCalls) : \A grade \in Grades :
              (mounted /\ AiEvaluationResolved(c, grade)) =>
                  /\ aiEvaluations'[aiCalls[c].currentQuestionIndex + 1] = grade
                  /\ aiEvaluations[aiCalls[c].currentQuestionIndex + 1]
                         = NoEvaluation
                  /\ \A i \in 1..N :
                         i # aiCalls[c].currentQuestionIndex + 1 =>
                             aiEvaluations'[i] = aiEvaluations[i]
                  /\ UNCHANGED <<userAnswers, checkedStates,
                                 shortAnswerGrades>>]_vars

\* The evaluation of the first question is stored; the evaluation of the
\* second was requested and the user went back to the first question while
\* the request is in flight.
C28_Witness ==
    /\ QuizShown
    /\ N = 2
    /\ Len(aiCalls) = 2
    /\ aiCalls[1] = Settled
    /\ aiCalls[2].state = "pending"
    /\ aiCalls[2].currentQuestionIndex = 1
    /\ currentQuestionIndex = 0
    /\ aiEvaluations = <<"A", NoEvaluation>>
    /\ shortAnswerGrades[1] = "B"

(***************************************************************************)
(* The way to completion.                                                  *)
(***************************************************************************)
\* Every multiple-choice question of the quiz has at least one option.
McQuestionsHaveOptions ==
    \A i \in 1..N :
        questions[i].questionType = "multiple-choice" =>
            Len(questions[i].options) > 0

\* The user actions question i still needs before the session is past it:
\* select or type, check, grade, advance.
StepsLeft(i) ==
    (IF checkedStates[i] THEN 0
     ELSE 1 + (IF IsObjective(i)
               THEN IF userAnswers[i] = Null THEN 1 ELSE 0
               ELSE IF i = currentQuestionIndex + 1 /\ NotBlank(tempShortAnswer)
                    THEN 0 ELSE 1))
    + (IF IsFreeText(i) /\ shortAnswerGrades[i] = NoGrade THEN 1 ELSE 0)
    + 1

\* The user actions the session still needs from question i on.
RECURSIVE StepsFrom(_)
StepsFrom(i) == IF i > N THEN 0 ELSE StepsLeft(i) + StepsFrom(i + 1)

\* The distance to completion.
StepsToCompletion ==
    IF showResults THEN 0 ELSE StepsFrom(currentQuestionIndex + 1)

\* A select, type, check, grade or advance action brings the session one
\* step closer to completion.
StepCloser ==
    /\ SelectOption \/ EditFreeText \/ CheckAnswer \/ SelectGrade \/ Advance
    /\ StepsToCompletion' = StepsToCompletion - 1

\* C29: for a quiz in which each multiple-choice question has at least one
\* option, the completed state is reachable from every reachable in-progress
\* state by a finite sequence of select or type, check, grade and advance
\* actions: every in-progress state has such an action that shortens the
\* distance to completion, a distance that is zero only at completion.
C29_CompletionReachable ==
    (McQuestionsHaveOptions /\ component = "Quiz") =>
        /\ StepsToCompletion >= 0
        /\ StepsToCompletion = 0 <=> showResults
        /\ QuizShown => ENABLED StepCloser

\* The user has checked both questions and gone back to the first: two
\* advance actions are left.
C29_Witness ==
    /\ McQuestionsHaveOptions
    /\ QuizShown
    /\ N = 2
    /\ questions[1].questionType = "ox"
    /\ Len(questions[1].options) = 0
    /\ IsFreeText(2)
    /\ currentQuestionIndex = 0
    /\ checkedStates = <<TRUE, TRUE>>
    /\ shortAnswerGrades[2] \in Grades
    /\ StepsToCompletion = 2

(***************************************************************************)
(* The navigation history of the app.                                      *)
(***************************************************************************)
\* The entries the app can navigate to.
NavigationEntries ==
    {[view |-> "selector", standard |-> "null"],
     [view |-> "dashboard", standard |-> "null"]}
        \cup {[view |-> "study", standard |-> standard] : standard \in Standards}

\* The history after a navigation to entry: the entries up to the current
\* one, then entry.
NavigatedTo(entry) ==
    /\ history' = SubSeq(history, 1, historyIndex + 1) \o <<entry>>
    /\ historyIndex' = historyIndex + 1

\* A navigation to entry: nothing changes when it is the current entry.
NavigationTo(entry) ==
    IF entry = history[historyIndex + 1]
    THEN UNCHANGED <<history, historyIndex>>
    ELSE NavigatedTo(entry)

\* C30: after any sequence of navigate, back and forward actions
\* 0 <= historyIndex < history.length and no two adjacent entries have the
\* same view and standard; a navigation to the current entry changes
\* nothing, any other discards the entries after the current one, appends
\* the new entry and makes it current; back and forward change historyIndex
\* by one and never the entries.
C30_NavigationHistory ==
    /\ [](historyIndex >= 0 /\ historyIndex < Len(history))
    /\ [](\A k \in 1..(Len(history) - 1) : history[k] # history[k + 1])
    /\ [][handleGoHome =>
              NavigationTo([view |-> "selector", standard |-> "null"])]_vars
    /\ [][handleShowDashboard =>
              NavigationTo([view |-> "dashboard", standard |-> "null"])]_vars
    /\ [][\A standard \in Standards :
              (StartStudy /\ handleStartStudy(standard)) =>
                  NavigationTo([view |-> "study", standard |-> standard])]_vars
    /\ [][handleBack =>
              history' = history /\ historyIndex' = historyIndex - 1]_vars
    /\ [][handleForward =>
              history' = history /\ historyIndex' = historyIndex + 1]_vars
    /\ [][\/ UNCHANGED <<history, historyIndex>>
          \/ history' = history /\ historyIndex' = historyIndex - 1
          \/ history' = history /\ historyIndex' = historyIndex + 1
          \/ \E entry \in NavigationEntries :
                 entry # history[historyIndex + 1] /\ NavigatedTo(entry)]_vars

\* The user went back twice in a history of four entries.
C30_Witness ==
    /\ history = <<[view |-> "selector", standard |-> "null"],
                   [view |-> "study", standard |-> "s2"],
                   [view |-> "selector", standard |-> "null"],
                   [view |-> "dashboard", standard |-> "null"]>>
    /\ historyIndex = 1

====
